---------------------------- MODULE Spec2Model ----------------------------
(***************************************************************************)
(* RNS ring arithmetic and key switching of lattigo: the word-sized        *)
(* Montgomery/Barrett reductions (ring/modular_reduction.go), the NTT      *)
(* (ring/ntt.go) and the bit-decomposition key switch (bfv evaluator).     *)
(*                                                                         *)
(* Machine words are WordBits wide instead of 64 (TLC integers are 32-bit  *)
(* and the products of two words must fit); every operation that wraps at  *)
(* 2^64 in the source wraps at 2^WordBits here, and the moduli keep the    *)
(* source's three bits of head-room (q < 2^(WordBits-3), the 61-bit limit  *)
(* of ntt.go:48).                                                          *)
(***************************************************************************)
EXTENDS Integers, Sequences, FiniteSets, TLC

\* Width of a machine word (uint64 in the source).
WordBits == 10

RECURSIVE Pow(_, _)
Pow(b, e) == IF e = 0 THEN 1 ELSE b * Pow(b, e - 1)

\* 2^WordBits: the modulus of uint64 arithmetic.
WordMod == Pow(2, WordBits)

\* uint64 wrap-around of a (possibly negative) integer expression.
Wrap(x) == ((x % WordMod) + WordMod) % WordMod

\* bits.Mul64: the double-word product as <<hi, lo>>.
Mul64(x, y) == <<(x * y) \div WordMod, (x * y) % WordMod>>

\* bits.Add64: <<sum, carryOut>>.
Add64(x, y, carry) == <<(x + y + carry) % WordMod, (x + y + carry) \div WordMod>>

\* bits.Len64: number of bits needed to represent x.
RECURSIVE Len64(_)
Len64(x) == IF x = 0 THEN 0 ELSE 1 + Len64(x \div 2)

(***************************************************************************)
(* Montgomery reduction                                                    *)
(***************************************************************************)

\* BRedParams: <<mhi, mlo>> = the two words of floor(2^(2*WordBits) / q).
\* The Go slice u[0], u[1] is the sequence u[1], u[2] here.
BRedParams(q) ==
    LET bigR == (WordMod * WordMod) \div q
    IN  <<bigR \div WordMod, bigR % WordMod>>

\* MRedParams: qInv = q^(2^(WordBits-1) - 1) mod 2^WordBits, by the source's
\* square-and-multiply loop (63 rounds for 64-bit words).
RECURSIVE MRedParamsLoop(_, _, _)
MRedParamsLoop(qInv, x, i) ==
    IF i = 0 THEN qInv
    ELSE MRedParamsLoop((qInv * x) % WordMod, (x * x) % WordMod, i - 1)

MRedParams(q) == MRedParamsLoop(1, q, WordBits - 1)

\* MFormConstant: a*2^WordBits mod q without the final conditional subtraction.
MFormConstant(a, q, u) ==
    LET mhi == Mul64(a, u[2])[1]
    IN  Wrap(0 - (Wrap(a * u[1] + mhi) * q))

\* MForm: a*2^WordBits mod q.
MForm(a, q, u) ==
    LET r == MFormConstant(a, q, u)
    IN  IF r >= q THEN r - q ELSE r

\* InvMFormConstant: a*(1/2^WordBits) mod q, in [0, 2q-1].
InvMFormConstant(a, q, qInv) ==
    LET r == Mul64(Wrap(a * qInv), q)[1]
    IN  Wrap(q - r)

\* InvMForm with the conditional subtraction left out.
InvMFormNoCond(a, q, qInv) == InvMFormConstant(a, q, qInv)

\* InvMForm: a*(1/2^WordBits) mod q.
InvMForm(a, q, qInv) ==
    LET r == InvMFormConstant(a, q, qInv)
    IN  IF r >= q THEN r - q ELSE r

\* MRedConstant with the +q of "ahi - H + q" forgotten.
MRedConstantNoQ(x, y, q, qInv) ==
    LET a == Mul64(x, y)
        H == Mul64(Wrap(a[2] * qInv), q)[1]
    IN  Wrap(a[1] - H)

\* MRedConstant: x*y*(1/2^WordBits) mod q, unreduced.
MRedConstant(x, y, q, qInv) ==
    LET a == Mul64(x, y)
        R == Wrap(a[2] * qInv)
        H == Mul64(R, q)[1]
    IN  Wrap(a[1] - H + q)

\* MRed with the conditional subtraction left out.
MRedNoCond(x, y, q, qInv) == MRedConstant(x, y, q, qInv)

\* MRed: x*y*(1/2^WordBits) mod q.
MRed(x, y, q, qInv) ==
    LET r == MRedConstant(x, y, q, qInv)
    IN  IF r >= q THEN r - q ELSE r

(***************************************************************************)
(* Barrett reduction                                                       *)
(***************************************************************************)

\* BRedAddConstant: x mod q up to one multiple of q.
BRedAddConstant(x, q, u) ==
    LET s0 == Mul64(x, u[1])[1]
    IN  Wrap(x - s0 * q)

\* BRedAdd with the conditional subtraction left out.
BRedAddNoCond(x, q, u) == BRedAddConstant(x, q, u)

\* BRedAdd: x mod q for a single word x.
BRedAdd(x, q, u) ==
    LET r == BRedAddConstant(x, q, u)
    IN  IF r >= q THEN r - q ELSE r

\* BRedConstant with the carry of the middle sum dropped.
BRedConstantNoCarry(x, y, q, u) ==
    LET a    == Mul64(x, y)
        lhi  == Mul64(a[2], u[2])[1]
        m1   == Mul64(a[2], u[1])
        s1   == Wrap(m1[1])
        m2   == Mul64(a[1], u[2])
        lhi2 == Wrap(m2[1])
        s0b  == Wrap(a[1] * u[1] + s1 + lhi2)
    IN  Wrap(a[2] - s0b * q)

\* BRedConstant: x*y mod q up to one multiple of q.
BRedConstant(x, y, q, u) ==
    LET a    == Mul64(x, y)                   \* ahi, alo
        lhi  == Mul64(a[2], u[2])[1]          \* (alo*ulo)>>64
        m1   == Mul64(a[2], u[1])             \* alo*uhi
        s0a  == Add64(m1[2], lhi, 0)
        s1   == Wrap(m1[1] + s0a[2])
        m2   == Mul64(a[1], u[2])             \* ahi*ulo
        c2   == Add64(m2[2], s0a[1], 0)[2]
        lhi2 == Wrap(m2[1] + c2)
        s0b  == Wrap(a[1] * u[1] + s1 + lhi2)
    IN  Wrap(a[2] - s0b * q)

\* BRed: x*y mod q.
BRed(x, y, q, u) ==
    LET r == BRedConstant(x, y, q, u)
    IN  IF r >= q THEN r - q ELSE r

\* CRed: a mod q for a in [0, 2q-1].
CRed(a, q) == IF a >= q THEN a - q ELSE a

(***************************************************************************)
(* NTT (ring/ntt.go)                                                       *)
(***************************************************************************)

\* Butterfly without the "if U > 2*Q" correction of its first operand.
ButterflyNoCorrection(U, V, Psi, Q, Qinv) ==
    LET V1 == MRedConstant(V, Psi, Q, Qinv)
    IN  <<Wrap(U + V1), Wrap(U + 2 * Q - V1)>>

\* Butterfly: X, Y = U + V*Psi, U - V*Psi mod Q (lazily).
Butterfly(U, V, Psi, Q, Qinv) ==
    LET U1 == IF U > Wrap(2 * Q) THEN Wrap(U - 2 * Q) ELSE U
        V1 == MRedConstant(V, Psi, Q, Qinv)
    IN  <<Wrap(U1 + V1), Wrap(U1 + 2 * Q - V1)>>

\* InvButterfly that multiplies U - V without adding 2*Q first.
InvButterflyNoOffset(U, V, Psi, Q, Qinv) ==
    LET X  == Wrap(U + V)
        X1 == IF X > Wrap(2 * Q) THEN Wrap(X - 2 * Q) ELSE X
    IN  <<X1, MRedConstant(Wrap(U - V), Psi, Q, Qinv)>>

\* InvButterfly: X, Y = U + V, (U - V) * Psi mod Q (lazily).
InvButterfly(U, V, Psi, Q, Qinv) ==
    LET X  == Wrap(U + V)
        X1 == IF X > Wrap(2 * Q) THEN Wrap(X - 2 * Q) ELSE X
    IN  <<X1, MRedConstant(Wrap(U + 2 * Q - V), Psi, Q, Qinv)>>

\* One round of forward butterflies (ntt.go:61-63 for m = 1, 68-79 after):
\* block i covers j1 = 2*i*t .. j1 + 2*t - 1 and pairs j with j + t.
NTTRound(coeffs, N, m, t, nttPsi, Q, mredParams) ==
    [k \in 0 .. N - 1 |->
        LET i   == k \div (2 * t)
            low == (k % (2 * t)) < t
            j   == IF low THEN k ELSE k - t
            B   == Butterfly(coeffs[j], coeffs[j + t], nttPsi[m + i], Q, mredParams)
        IN  IF low THEN B[1] ELSE B[2]]

\* One round of inverse butterflies (ntt.go:99-110 for t = 1, 119-130 after).
InvNTTRound(coeffs, N, h, t, nttPsiInv, Q, mredParams) ==
    [k \in 0 .. N - 1 |->
        LET i   == k \div (2 * t)
            low == (k % (2 * t)) < t
            j   == IF low THEN k ELSE k - t
            B   == InvButterfly(coeffs[j], coeffs[j + t], nttPsiInv[h + i], Q, mredParams)
        IN  IF low THEN B[1] ELSE B[2]]

\* The final pass of NTTLazy: every coefficient brought to [0, 2q).
NTTFinalLazy(coeffs, N, Q, bredParams) ==
    [k \in 0 .. N - 1 |-> BRedAddConstant(coeffs[k], Q, bredParams)]

\* The final pass of NTT (ntt.go:83-85).
NTTFinal(coeffs, N, Q, bredParams) ==
    [k \in 0 .. N - 1 |-> BRedAdd(coeffs[k], Q, bredParams)]

\* The final pass without the multiplication by 1/N.
InvNTTFinalNoNInv(coeffs, N, nttNInv, Q, mredParams) ==
    [k \in 0 .. N - 1 |-> CRed(coeffs[k] % (2 * Q), Q)]

\* The final pass of InvNTT (ntt.go:136-138).
InvNTTFinal(coeffs, N, nttNInv, Q, mredParams) ==
    [k \in 0 .. N - 1 |-> MRed(coeffs[k], nttNInv, Q, mredParams)]

(***************************************************************************)
(* The ring context: the per-modulus tables NTT and InvNTT are given.      *)
(***************************************************************************)
RECURSIVE ModExp(_, _, _)
ModExp(b, e, q) ==
    IF e = 0 THEN 1 % q
    ELSE LET h == ModExp(b, e \div 2, q)
         IN  IF e % 2 = 0 THEN (h * h) % q ELSE (((h * h) % q) * b) % q

\* The bits of j, logN of them, in reverse order.
RECURSIVE BitReverse64(_, _)
BitReverse64(j, logN) ==
    IF logN = 0 THEN 0
    ELSE (j % 2) * Pow(2, logN - 1) + BitReverse64(j \div 2, logN - 1)

\* The smallest generator of the multiplicative group mod q.
PrimitiveRoot(q) ==
    CHOOSE g \in 2 .. q - 1 :
        /\ \A e \in 1 .. q - 2 : ModExp(g, e, q) # 1
        /\ \A h \in 2 .. g - 1 : \E e \in 1 .. q - 2 : ModExp(h, e, q) = 1

\* The tables of one modulus q for ring degree N = 2^logN: the powers of
\* the 2N-th root of unity psi and of its inverse, in Montgomery form and
\* bit-reversed order, and 1/N in Montgomery form.
NewContext(q, logN) ==
    LET N      == Pow(2, logN)
        psi    == ModExp(PrimitiveRoot(q), (q - 1) \div (2 * N), q)
        psiInv == ModExp(psi, q - 2, q)
        u      == BRedParams(q)
    IN  [ Modulus    |-> q,
          N          |-> N,
          logN       |-> logN,
          psi        |-> psi,
          bredParams |-> u,
          mredParams |-> MRedParams(q),
          nttPsi     |-> [k \in 0 .. N - 1 |-> MForm(ModExp(psi, BitReverse64(k, logN), q), q, u)],
          nttPsiInv  |-> [k \in 0 .. N - 1 |-> MForm(ModExp(psiInv, BitReverse64(k, logN), q), q, u)],
          nttNInv    |-> MForm(ModExp(N, q - 2, q), q, u) ]

\* The rounds m = 2, 4, ... of NTT after the first (ntt.go:66-80).
RECURSIVE NTTLoop(_, _, _, _)
NTTLoop(coeffs, ctx, m, t) ==
    IF m >= ctx.N THEN coeffs
    ELSE NTTLoop(NTTRound(coeffs, ctx.N, m, t \div 2, ctx.nttPsi,
                          ctx.Modulus, ctx.mredParams),
                 ctx, 2 * m, t \div 2)

\* NTT on one limb, from the first round to the final pass (ntt.go:53-86).
NTT(coeffs, ctx) ==
    LET t     == ctx.N \div 2
        first == NTTRound(coeffs, ctx.N, 1, t, ctx.nttPsi, ctx.Modulus, ctx.mredParams)
    IN  NTTFinal(NTTLoop(first, ctx, 2, t), ctx.N, ctx.Modulus, ctx.bredParams)

\* Context.NTT: NTT on every limb of p (ntt.go:4-8).  A polynomial is the
\* sequence of its limbs, each a function from 0..N-1 to words.
ContextNTT(p, context) ==
    [v \in 1 .. Len(context) |-> NTT(p[v], context[v])]

\* The rounds of InvNTT after the first (ntt.go:114-133).
RECURSIVE InvNTTLoop(_, _, _, _)
InvNTTLoop(coeffs, ctx, m, t) ==
    IF m <= 1 THEN coeffs
    ELSE InvNTTLoop(InvNTTRound(coeffs, ctx.N, m \div 2, t, ctx.nttPsiInv,
                                ctx.Modulus, ctx.mredParams),
                    ctx, m \div 2, 2 * t)

\* InvNTT on one limb, from the first round to the final pass (ntt.go:89-139).
InvNTT(coeffs, ctx) ==
    LET h     == ctx.N \div 2
        first == InvNTTRound(coeffs, ctx.N, h, 1, ctx.nttPsiInv, ctx.Modulus, ctx.mredParams)
    IN  InvNTTFinal(InvNTTLoop(first, ctx, h, 2), ctx.N, ctx.nttNInv,
                    ctx.Modulus, ctx.mredParams)

\* Context.InvNTT: InvNTT on every limb of p (ntt.go:18-22).
ContextInvNTT(p, context) ==
    [v \in 1 .. Len(context) |-> InvNTT(p[v], context[v])]

\* NTTLazy on one limb: the rounds of NTT, the result left in [0, 2q).
NTTLazy(coeffs, ctx) ==
    LET t     == ctx.N \div 2
        first == NTTRound(coeffs, ctx.N, 1, t, ctx.nttPsi, ctx.Modulus, ctx.mredParams)
    IN  NTTFinalLazy(NTTLoop(first, ctx, 2, t), ctx.N, ctx.Modulus, ctx.bredParams)

(***************************************************************************)
(* Key switching by bit decomposition (dbfv/publickey_gen.go, switchKeys)  *)
(***************************************************************************)

\* x & y on machine words.
RECURSIVE And(_, _)
And(x, y) ==
    IF x = 0 \/ y = 0 THEN 0
    ELSE (x % 2) * (y % 2) + 2 * And(x \div 2, y \div 2)

\* x >> s on machine words.
ShiftRight(x, s) == x \div Pow(2, s)

\* The digit written to c2_qi_w with the shift j instead of j*bitDecomp.
DigitShiftByJ(c, j, bitDecomp) ==
    And(ShiftRight(c, j), Wrap(Pow(2, bitDecomp)) - 1)

\* publickey_gen.go:846,858: (c >> (j*bitDecomp)) & mask.
Digit(c, j, bitDecomp) ==
    And(ShiftRight(c, j * bitDecomp), Wrap(Pow(2, bitDecomp)) - 1)

\* publickey_gen.go:856-860: digit j of limb i of c2, copied to every limb v.
DigitPoly(c2, i, j, bitDecomp, context) ==
    [v \in 1 .. Len(context) |->
        [u \in 0 .. context[1].N - 1 |-> Digit(c2[i][u], j, bitDecomp)]]

\* Context.MulCoeffsMontgomeryAndAddNoMod: p3 = p3 + p1 * p2 coefficient by
\* coefficient, the product Montgomery-reduced and the sum not reduced.
MulCoeffsMontgomeryAndAddNoMod(p1, p2, p3, context) ==
    [v \in 1 .. Len(context) |->
        [u \in 0 .. context[v].N - 1 |->
            Wrap(p3[v][u] + MRed(p1[v][u], p2[v][u],
                                 context[v].Modulus, context[v].mredParams))]]

\* Context.Reduce: every coefficient reduced to [0, q) by Barrett reduction.
Reduce(p, context) ==
    [v \in 1 .. Len(context) |->
        [u \in 0 .. context[v].N - 1 |->
            BRedAdd(p[v][u], context[v].Modulus, context[v].bredParams)]]

\* The key entry read for digit (i, j), always the first of modulus i.
EvaKeyEntryFirst(evakey, i, j, b) == evakey[i][1][b]

\* publickey_gen.go:864-865: evakey.evakey[i][j][0] and evakey.evakey[i][j][1]
\* (i counts from 1 here, j from 0 as in the source, b is 1 or 2).
EvaKeyEntry(evakey, i, j, b) == evakey[i][j + 1][b]

\* The number of digits key generation allots to modulus q: enough
\* bitDecomp-bit digits to cover the bits of q.
BitLog(q, bitDecomp) == (Len64(q) + bitDecomp - 1) \div bitDecomp

(***************************************************************************)
(* Basis extension and rounded division, one coefficient at a time, as     *)
(* section 4.4 describes them: a coefficient is the sequence of its        *)
(* residues, one per modulus of the basis.                                 *)
(***************************************************************************)
RECURSIVE ProdSeq(_)
ProdSeq(s) == IF s = <<>> THEN 1 ELSE Head(s) * ProdSeq(Tail(s))

RECURSIVE SumSeq(_)
SumSeq(s) == IF s = <<>> THEN 0 ELSE Head(s) + SumSeq(Tail(s))

\* The inverse of a modulo the prime q.
ModInv(a, q) == ModExp(a % q, q - 2, q)

\* x * y mod q by Montgomery multiplication, y brought to Montgomery form.
MulMod(x, y, q) == MRed(x, MForm(y % q, q, BRedParams(q)), q, MRedParams(q))

\* y_i = x_i * (Q/q_i)^-1 mod q_i: the CRT coordinates of the coefficient.
ReconstructRNS(xQ, Q) ==
    [i \in 1 .. Len(Q) |-> MulMod(xQ[i], ModInv(ProdSeq(Q) \div Q[i], Q[i]), Q[i])]

\* sum_i y_i * (Q/q_i) - v*Q modulo each p_j, for the overflow count v.
ModUpWith(y, v, Q, P) ==
    [j \in 1 .. Len(P) |->
        LET pj  == P[j]
            sum == SumSeq([i \in 1 .. Len(Q) |->
                              MulMod(y[i] % pj, ProdSeq(Q) \div Q[i], pj)])
        IN  BRedAdd(sum + pj - MulMod(v % pj, ProdSeq(Q), pj), pj, BRedParams(pj))]

\* extend(Q, P, .), exact: v = floor(sum_i y_i / q_i), so that the integer
\* extended is the representative in [0, Q).
ModUpExact(xQ, Q, P) ==
    LET y == ReconstructRNS(xQ, Q)
        v == SumSeq([i \in 1 .. Len(Q) |-> y[i] * (ProdSeq(Q) \div Q[i])]) \div ProdSeq(Q)
    IN  ModUpWith(y, v, Q, P)

\* extend(Q, P, .) of the centered representative: v = round(sum_i y_i / q_i),
\* so that the integer extended lies in [-Q/2, Q/2).
ModUpCentered(xQ, Q, P) ==
    LET y == ReconstructRNS(xQ, Q)
        v == (2 * SumSeq([i \in 1 .. Len(Q) |-> y[i] * (ProdSeq(Q) \div Q[i])]) + ProdSeq(Q))
                 \div (2 * ProdSeq(Q))
    IN  ModUpWith(y, v, Q, P)

\* modDown(Q u P, P, .): the P-part extended into Q, subtracted, and the
\* difference multiplied by P^-1 modulo each q_i.
ModDown(xQ, xP, Q, P) ==
    LET ext == ModUpCentered(xP, P, Q)
    IN  [i \in 1 .. Len(Q) |->
            MulMod((xQ[i] + Q[i] - ext[i]) % Q[i], ModInv(ProdSeq(P), Q[i]), Q[i])]

\* DivRoundByLastModulus: half the last modulus added, then the last residue
\* subtracted from every other one and the difference divided by the last
\* modulus; the level drops by one.
DivRoundByLastModulus(x, M) ==
    LET n    == Len(M)
        p    == M[n]
        half == p \div 2
        last == (x[n] + half) % p
    IN  [i \in 1 .. n - 1 |->
            MulMod((x[i] + (half % M[i]) + M[i] - (last % M[i])) % M[i],
                   ModInv(p, M[i]), M[i])]

\* DivRoundByLastModulusMany: DivRoundByLastModulus nbRescales times.
RECURSIVE DivRoundByLastModulusMany(_, _, _)
DivRoundByLastModulusMany(x, M, nbRescales) ==
    IF nbRescales = 0 THEN x
    ELSE DivRoundByLastModulusMany(DivRoundByLastModulus(x, M),
                                   SubSeq(M, 1, Len(M) - 1), nbRescales - 1)

(***************************************************************************)
(* The RNS gadget decomposition (section 4.5): digit i holds the residues  *)
(* of the limbs of group i, extended to every other limb of Q and P.       *)
(***************************************************************************)

\* params.Alpha(): the number of limbs of a group, the number of moduli of P.
Alpha(Q, P) == Len(P)

\* params.Beta(): the number of groups, ceil(len(Q) / len(P)).
Beta(Q, P) == (Len(Q) + Len(P) - 1) \div Len(P)

\* The limbs of group i (i from 0): p0idxst .. p0idxed - 1 of
\* decomposeAndSplitNTT, counted from 1 here.
GroupLimbs(i, Q, P) ==
    {x \in 1 .. Len(Q) : i * Alpha(Q, P) < x /\ x <= (i + 1) * Alpha(Q, P)}

\* The elements of the set S of limbs, in increasing order, as moduli of M.
RECURSIVE LimbSeq(_, _)
LimbSeq(S, M) ==
    IF S = {} THEN <<>>
    ELSE LET x == CHOOSE y \in S : \A z \in S : y <= z
         IN  <<M[x]>> \o LimbSeq(S \ {x}, M)

\* The residues of the coefficient xQ at the limbs in S, in increasing order.
RECURSIVE LimbResidues(_, _)
LimbResidues(S, xQ) ==
    IF S = {} THEN <<>>
    ELSE LET x == CHOOSE y \in S : \A z \in S : y <= z
         IN  <<xQ[x]>> \o LimbResidues(S \ {x}, xQ)

\* Decomposer.DecomposeAndSplit on one coefficient: the residues of digit i
\* over Q then P, the limbs of group i copied and the others extended from
\* them (centered representative).
DecomposeAndSplitCoeff(i, xQ, Q, P) ==
    LET G  == GroupLimbs(i, Q, P)
        M  == Q \o P
    IN  [v \in 1 .. Len(M) |->
            IF v \in G THEN xQ[v]
            ELSE ModUpCentered(LimbResidues(G, xQ), LimbSeq(G, Q), <<M[v]>>)[1]]

(***************************************************************************)
(* State                                                                   *)
(***************************************************************************)
VARIABLES
    red_q,      \* modular reduction: the modulus q
    red_x,      \* first operand (x, or a for the unary routines)
    red_y,      \* second operand
    red_op,     \* the routine that produced red_r ("none" before any call)
    red_r,      \* the routine's return value r
    ntt_ctx,    \* NTT: the context (modulus, N and the tables)
    ntt_in,     \* the coefficient-domain polynomial given to NTT
    ntt_coeffs, \* coeffsOut, transformed in place
    ntt_pc,     \* position in NTT followed by InvNTT
    ntt_m,      \* the round counter m of the butterfly loops
    ntt_t,      \* the butterfly distance t
    ks_context, \* switchKeys: contextQ, one table record per modulus
    ks_bitDecomp, \* evakey.bitDecomp
    ks_evakey,  \* evakey.evakey[i][j][b], NTT domain and Montgomery form
    ks_c2,      \* the polynomial c2 to decompose (coefficient domain)
    ks_cIn,     \* the values of cOut.Value()[0], [1] when switchKeys starts
    ks_cOut,    \* cOut.Value()[0], [1]: the two accumulators
    ks_c2_qi_w, \* the scratch polynomial polypool[4] holding the digit
    ks_i,       \* loop index i over the moduli (from 1)
    ks_j,       \* loop index j over the digits of modulus i (from 0)
    ks_reduce,  \* the counter reduce
    ks_pc,      \* position in switchKeys
    ks_digits,  \* the digits extracted so far, per modulus, in order
    ks_log,     \* the sub-steps run so far, in order
    rl_k,       \* Relinearization: k = len(evaluationKeys), the parties
    rl_i,       \* loop index i
    rl_j,       \* loop index j
    rl_pc,      \* position in Relinearization
    rl_log,     \* the calls made so far, in order
    be_Q,       \* basis extension: the moduli of basis Q
    be_P,       \* the moduli of basis P
    be_x,       \* the integer coefficient the residues stand for
    be_pQ,      \* the residues of the coefficient in basis Q
    be_pP,      \* the residues of the coefficient in basis P
    be_op,      \* the routine that produced be_res ("none" before any call)
    be_res,     \* the residues the routine returned
    gi_ringQ,   \* GInverse: ringQ, one table record per modulus of Q
    gi_ringP,   \* ringP, one table record per modulus of P
    gi_c,       \* the integer coefficients of the polynomial decomposed
    gi_p,       \* the argument p: that polynomial in basis Q, NTT domain
    gi_invPoly, \* invPoly
    gi_i,       \* loop index i over the digits (from 0)
    gi_polynomialsQ, \* polynomialsQ, the Q parts of the digits so far
    gi_polynomialsP, \* polynomialsP, the P parts of the digits so far
    gi_pc       \* position in GInverse

VARIABLES
    lv_op,      \* NTTLvl: "Context.NTTLvl" or "RingQP.NTTLvl"
    lv_ctxQ,    \* the tables of the ring (of RingQ), one record per modulus
    lv_ctxP,    \* the tables of RingP
    lv_levelQ,  \* the level asked for (levelQ)
    lv_levelP,  \* levelP
    lv_p,       \* the operand p1 (p.Q and p.P): its limb arrays
    lv_pOut,    \* the receiver p2 (pOut.Q and pOut.P): its limb arrays
    lv_x,       \* loop index x over the limbs
    lv_pc       \* position: "Q", "P", "Done" or "Panic"

VARIABLES
    dc_context, \* Decrypt: contextQ, one table record per modulus
    dc_ct,      \* ciphertext.value[0 .. degree], one coefficient per limb
    dc_sk,      \* decryptor.sk.sk, Montgomery form
    dc_pt,      \* plaintext.value.Coeffs
    dc_in,      \* plaintext.value.Coeffs at the call
    dc_level,   \* level
    dc_i,       \* loop index i
    dc_pc,      \* position: "Copy", "Loop", "Done" or "Panic"
    dc_lazy     \* Horner steps made since the last ReduceLvl

VARIABLES
    rot_op,     \* rotation: "RotateColumns", "RotateRows" or "InnerSum"
    rot_n,      \* bfvcontext.n, the ring degree
    rot_k,      \* the rotation amount k asked for
    rot_deg0,   \* degree of the operand c0
    rot_deg1,   \* degree of the receiver c1
    rot_same,   \* whether c0 and c1 are the same ciphertext
    rot_keysL,  \* the k with evakey.evakey_rot_col_L[k] generated
    rot_keysR,  \* the k with evakey.evakey_rot_col_R[k] generated
    rot_rowKey, \* whether evakey.evakey_rot_row was generated
    rot_c0,     \* what the operand holds
    rot_c1,     \* what the receiver holds
    rot_cTmp,   \* InnerSum: cTmp
    rot_i,      \* InnerSum: loop index i
    rot_pc,     \* position
    rot_err,    \* the error returned ("nil" for none)
    rot_keys    \* the switching keys the key switches were run with

VARIABLES
    md_diags,   \* MultiplyByDiagMatrix: the diagonals k of matrix.Vec
    md_keys,    \* the k whose rotation key is in eval.rtks.Keys
    md_todo,    \* the diagonals the range loop has not visited yet
    md_state,   \* state (a diagonal k = 0 was seen)
    md_cnt,     \* cnt
    md_acc,     \* the diagonals accumulated into ctOut so far
    md_pc       \* position: "Loop", "Return" or "Panic"

VARIABLES
    bs_caller,  \* the entry point called: "Bootstrap" or "BootstrapMany"
    bs_ring,    \* b.paramsN1.RingType()
    bs_nb,      \* len(cts) at the entry of BootstrapMany
    bs_cts,     \* cts, one tag per ciphertext ("in", "packed", "fresh")
    bs_nil,     \* cts is the nil slice
    bs_i,       \* loop index i
    bs_err,     \* err
    bs_pc       \* position in Bootstrap / BootstrapMany

VARIABLES
    pe_input,   \* dynamic type of input
    pe_p,       \* dynamic type of p
    pe_level,   \* level of the input ciphertext (powerbasis.Value[1].Level())
    pe_degree,  \* polyVec.Value[0].Degree()
    pe_lcpr,    \* eval.Parameters.LevelsConsummedPerRescaling()
    pe_odd,     \* odd
    pe_even,    \* even
    pe_given,   \* the powers the caller handed in
    pe_powers,  \* the powers held by powerbasis
    pe_i,       \* loop index i
    pe_err,     \* err
    pe_out,     \* opOut ("nil" or "ct")
    pe_pc       \* position in Polynomial

VARIABLES
    en_encs,    \* the Encryptors created so far, in order of creation
    en_next,    \* the next fresh heap address
    en_mem,     \* heap address -> the Encryptor that wrote it last (0: none)
    en_busy,    \* the Encryptors with an Encrypt call in progress
    en_torn     \* the Encryptors one of whose Encrypt calls read another one's write

VARIABLES
    rs_Q,       \* rescaling: the moduli of the input polynomial, Q[0 .. level]
    rs_x,       \* the integer coefficient the input residues stand for
    rs_in,      \* the limbs of the input polynomial (one coefficient)
    rs_poly,    \* the limbs of the polynomial the routine returned
    rs_routine, \* the routine that removes the limbs
    rs_lcpr,    \* levelsConsummedPerRescaling
    rs_op,      \* op0, the DummyOperand (Level and Scale as a fraction)
    rs_i,       \* loop index i of ckksDummyEvaluator.Rescale
    rs_pc       \* position: "Loop", "Rescale" or "Done"

VARIABLES
    ms_ct,      \* serialization: the ciphertext marshalled (Value and Scale)
    ms_target,  \* the Ciphertext UnmarshalBinary is called on
    ms_data,    \* the bytes MarshalBinary returned
    ms_err,     \* the error of the last call ("nil" when none)
    ms_new,     \* the receiver of UnmarshalBinary was made by new(Ciphertext)
    ms_pc       \* position: "Marshal", "Unmarshal" or "Done"

VARIABLES
    pf_degree,  \* EvaluatePolyFast: degree (len(coeffs) - 1)
    pf_M,       \* M
    pf_L,       \* L
    pf_i,       \* loop index i
    pf_C,       \* the powers n with C[n] != nil
    pf_stack,   \* the active calls of recurse, innermost last
    pf_mults,   \* number of ciphertext multiplications made so far
    pf_pc       \* position in EvaluatePolyFast

VARIABLES
    ng_q,       \* NegNew: the modulus of contextQ
    ng_in,      \* the polynomials of c0 at the call
    ng_c0,      \* the polynomials of c0
    ng_cOut,    \* the polynomials of the element NegNew allocated
    ng_i,       \* loop index i
    ng_ret,     \* the element returned (isNil, Value)
    ng_pc       \* position: "Alloc", "Loop" or "Done"

VARIABLES
    rn_op,      \* Relinearize or RelinearizeNew
    rn_degIn,   \* cIn.Degree() at the call
    rn_keyLen,  \* len(evakey.evakey)
    rn_same,    \* cOut is cIn (Relinearize in place)
    rn_out,     \* the polynomials of cOut: the tag of what each one holds
    rn_deg,     \* loop variable deg
    rn_reads,   \* the indices of evakey.evakey read so far, in order
    rn_err,     \* the error returned ("nil" when none)
    rn_pc       \* position in Relinearize / relinearize

VARIABLES
    dr_vec,     \* the keys of matrix.Vec
    dr_todo,    \* the keys the range loop has not yielded yet
    dr_QiOverF, \* QiOverF
    dr_PiOverF, \* PiOverF
    dr_state,   \* state (a diagonal of rotation 0 was seen)
    dr_cnt,     \* cnt
    dr_log,     \* the calls made on the accumulators, in order
    dr_pc       \* Loop, Return

VARIABLES
    sw_op,      \* SwitchKeys or SwitchKeysNew
    sw_degIn,   \* cIn.Degree() at the call
    sw_degOut,  \* cOut.Degree() at the call (SwitchKeys)
    sw_same,    \* cIn == cOut
    sw_key,     \* the switching key handed over
    sw_reads,   \* the indices of cIn.Value() read, in order
    sw_ret,     \* the ciphertext returned by SwitchKeysNew: nil or new
    sw_err,     \* the error returned
    sw_pc       \* Check, NTT, SwitchKeys, InvNTT, Done or Panic

lvVars == <<lv_op, lv_ctxQ, lv_ctxP, lv_levelQ, lv_levelP, lv_p, lv_pOut, lv_x, lv_pc>>

dcVars == <<dc_context, dc_ct, dc_sk, dc_pt, dc_in, dc_level, dc_i, dc_pc, dc_lazy>>

rotVars == <<rot_op, rot_n, rot_k, rot_deg0, rot_deg1, rot_same, rot_keysL, rot_keysR, rot_rowKey, rot_c0, rot_c1, rot_cTmp, rot_i, rot_pc, rot_err, rot_keys>>

mdVars == <<md_diags, md_keys, md_todo, md_state, md_cnt, md_acc, md_pc>>

bsVars == <<bs_caller, bs_ring, bs_nb, bs_cts, bs_nil, bs_i, bs_err, bs_pc>>

peVars == <<pe_input, pe_p, pe_level, pe_degree, pe_lcpr, pe_odd, pe_even, pe_given, pe_powers, pe_i, pe_err, pe_out, pe_pc>>

enVars == <<en_encs, en_next, en_mem, en_busy, en_torn>>

rsVars == <<rs_Q, rs_x, rs_in, rs_poly, rs_routine, rs_lcpr, rs_op, rs_i, rs_pc>>

msVars == <<ms_ct, ms_target, ms_data, ms_err, ms_new, ms_pc>>

pfVars == <<pf_degree, pf_M, pf_L, pf_i, pf_C, pf_stack, pf_mults, pf_pc>>

ngVars == <<ng_q, ng_in, ng_c0, ng_cOut, ng_i, ng_ret, ng_pc>>

rnVars == <<rn_op, rn_degIn, rn_keyLen, rn_same, rn_out, rn_deg, rn_reads, rn_err, rn_pc>>

drVars == <<dr_vec, dr_todo, dr_QiOverF, dr_PiOverF, dr_state, dr_cnt, dr_log, dr_pc>>

swVars == <<sw_op, sw_degIn, sw_degOut, sw_same, sw_key, sw_reads, sw_ret, sw_err, sw_pc>>

ctlVars == <<lvVars, dcVars, rotVars, mdVars, bsVars, peVars, enVars, rsVars, msVars, pfVars, ngVars, rnVars, drVars, swVars>>

redVars == <<red_q, red_x, red_y, red_op, red_r>>

nttVars == <<ntt_ctx, ntt_in, ntt_coeffs, ntt_pc, ntt_m, ntt_t>>

ksVars == <<ks_context, ks_bitDecomp, ks_evakey, ks_c2, ks_cIn, ks_cOut,
           ks_c2_qi_w, ks_i, ks_j, ks_reduce, ks_pc, ks_digits, ks_log>>

rlVars == <<rl_k, rl_i, rl_j, rl_pc, rl_log>>

beVars == <<be_Q, be_P, be_x, be_pQ, be_pP, be_op, be_res>>

giVars == <<gi_ringQ, gi_ringP, gi_c, gi_p, gi_invPoly, gi_i,
            gi_polynomialsQ, gi_polynomialsP, gi_pc>>

coreVars == <<redVars, nttVars, ksVars, rlVars, beVars, giVars>>

\* What the steps of one operation leave alone: the state of the others.
lvRest == <<coreVars, dcVars, rotVars, mdVars, bsVars, peVars, enVars, rsVars, msVars, pfVars, ngVars, rnVars, drVars, swVars>>
dcRest == <<coreVars, lvVars, rotVars, mdVars, bsVars, peVars, enVars, rsVars, msVars, pfVars, ngVars, rnVars, drVars, swVars>>
rotRest == <<coreVars, lvVars, dcVars, mdVars, bsVars, peVars, enVars, rsVars, msVars, pfVars, ngVars, rnVars, drVars, swVars>>
mdRest == <<coreVars, lvVars, dcVars, rotVars, bsVars, peVars, enVars, rsVars, msVars, pfVars, ngVars, rnVars, drVars, swVars>>
bsRest == <<coreVars, lvVars, dcVars, rotVars, mdVars, peVars, enVars, rsVars, msVars, pfVars, ngVars, rnVars, drVars, swVars>>
peRest == <<coreVars, lvVars, dcVars, rotVars, mdVars, bsVars, enVars, rsVars, msVars, pfVars, ngVars, rnVars, drVars, swVars>>
enRest == <<coreVars, lvVars, dcVars, rotVars, mdVars, bsVars, peVars, rsVars, msVars, pfVars, ngVars, rnVars, drVars, swVars>>
rsRest == <<coreVars, lvVars, dcVars, rotVars, mdVars, bsVars, peVars, enVars, msVars, pfVars, ngVars, rnVars, drVars, swVars>>
msRest == <<coreVars, lvVars, dcVars, rotVars, mdVars, bsVars, peVars, enVars, rsVars, pfVars, ngVars, rnVars, drVars, swVars>>
pfRest == <<coreVars, lvVars, dcVars, rotVars, mdVars, bsVars, peVars, enVars, rsVars, msVars, ngVars, rnVars, drVars, swVars>>
ngRest == <<coreVars, lvVars, dcVars, rotVars, mdVars, bsVars, peVars, enVars, rsVars, msVars, pfVars, rnVars, drVars, swVars>>
rnRest == <<coreVars, lvVars, dcVars, rotVars, mdVars, bsVars, peVars, enVars, rsVars, msVars, pfVars, ngVars, drVars, swVars>>
drRest == <<coreVars, lvVars, dcVars, rotVars, mdVars, bsVars, peVars, enVars, rsVars, msVars, pfVars, ngVars, rnVars, swVars>>
swRest == <<coreVars, lvVars, dcVars, rotVars, mdVars, bsVars, peVars, enVars, rsVars, msVars, pfVars, ngVars, rnVars, drVars>>

vars == <<red_q, red_x, red_y, red_op, red_r,
          ntt_ctx, ntt_in, ntt_coeffs, ntt_pc, ntt_m, ntt_t,
          ks_context, ks_bitDecomp, ks_evakey, ks_c2, ks_cIn, ks_cOut,
          ks_c2_qi_w, ks_i, ks_j, ks_reduce, ks_pc, ks_digits, ks_log,
          rl_k, rl_i, rl_j, rl_pc, rl_log,
          be_Q, be_P, be_x, be_pQ, be_pP, be_op, be_res,
          gi_ringQ, gi_ringP, gi_c, gi_p, gi_invPoly, gi_i,
          gi_polynomialsQ, gi_polynomialsP, gi_pc, ctlVars>>

\* The moduli of the ring: the primes of the concrete scenario (17 and 97)
\* and one more prime just below the 2^(WordBits-3) limit.
Moduli == {17, 97, 113}

(***************************************************************************)
(* Modular reduction: one call of one routine on operands (x, y) mod q.    *)
(***************************************************************************)
RedIdle ==
    /\ red_q = 0 /\ red_x = 0 /\ red_y = 0 /\ red_op = "idle" /\ red_r = 0

NTTIdle ==
    /\ ntt_ctx = <<>> /\ ntt_in = <<>> /\ ntt_coeffs = <<>>
    /\ ntt_pc = "idle" /\ ntt_m = 0 /\ ntt_t = 0

KSIdle ==
    /\ ks_context = <<>> /\ ks_bitDecomp = 0 /\ ks_evakey = <<>> /\ ks_c2 = <<>>
    /\ ks_cIn = <<>> /\ ks_cOut = <<>> /\ ks_c2_qi_w = <<>>
    /\ ks_i = 0 /\ ks_j = 0 /\ ks_reduce = 0 /\ ks_pc = "idle"
    /\ ks_digits = <<>> /\ ks_log = <<>>

RelinIdle ==
    /\ rl_k = 0 /\ rl_i = 0 /\ rl_j = 0 /\ rl_pc = "idle" /\ rl_log = <<>>

BEIdle ==
    /\ be_Q = <<>> /\ be_P = <<>> /\ be_x = 0 /\ be_pQ = <<>> /\ be_pP = <<>>
    /\ be_op = "idle" /\ be_res = <<>>

GInverseIdle ==
    /\ gi_ringQ = <<>> /\ gi_ringP = <<>> /\ gi_c = <<>> /\ gi_p = <<>>
    /\ gi_invPoly = <<>> /\ gi_i = 0
    /\ gi_polynomialsQ = <<>> /\ gi_polynomialsP = <<>> /\ gi_pc = "idle"

CoreIdle ==
    /\ RedIdle /\ NTTIdle /\ KSIdle /\ RelinIdle /\ BEIdle /\ GInverseIdle

LvlIdle ==
    /\ lv_op = "idle" /\ lv_ctxQ = <<>> /\ lv_ctxP = <<>>
    /\ lv_levelQ = 0 /\ lv_levelP = 0 /\ lv_p = <<>> /\ lv_pOut = <<>>
    /\ lv_x = 0 /\ lv_pc = "idle"

DecryptIdle ==
    /\ dc_context = <<>> /\ dc_ct = <<>> /\ dc_sk = <<>> /\ dc_pt = <<>>
    /\ dc_in = <<>> /\ dc_level = 0 /\ dc_i = 0 /\ dc_pc = "idle"
    /\ dc_lazy = 0

RotIdle ==
    /\ rot_op = "idle" /\ rot_n = 0 /\ rot_k = 0 /\ rot_deg0 = 0 /\ rot_deg1 = 0
    /\ rot_same = FALSE /\ rot_keysL = {} /\ rot_keysR = {} /\ rot_rowKey = FALSE
    /\ rot_c0 = <<>> /\ rot_c1 = <<>> /\ rot_cTmp = <<>> /\ rot_i = 0
    /\ rot_pc = "idle" /\ rot_err = "nil" /\ rot_keys = <<>>

DiagIdle ==
    /\ md_diags = {} /\ md_keys = {} /\ md_todo = {} /\ md_state = FALSE
    /\ md_cnt = 0 /\ md_acc = {} /\ md_pc = "idle"

BootIdle ==
    /\ bs_caller = "none" /\ bs_ring = "none" /\ bs_nb = 0 /\ bs_cts = <<>>
    /\ bs_nil = FALSE /\ bs_i = 0 /\ bs_err = "nil" /\ bs_pc = "idle"

PolyIdle ==
    /\ pe_input = "none" /\ pe_p = "none" /\ pe_level = 0 /\ pe_degree = 0
    /\ pe_lcpr = 0 /\ pe_odd = FALSE /\ pe_even = FALSE /\ pe_given = {}
    /\ pe_powers = {} /\ pe_i = 0 /\ pe_err = "nil" /\ pe_out = "nil"
    /\ pe_pc = "idle"

EncIdle ==
    /\ en_encs = <<>> /\ en_next = 0 /\ en_mem = <<>> /\ en_busy = {}
    /\ en_torn = {}

RescaleIdle ==
    /\ rs_Q = <<>> /\ rs_x = 0 /\ rs_in = <<>> /\ rs_poly = <<>>
    /\ rs_routine = "none" /\ rs_lcpr = 0
    /\ rs_op = [Level |-> 0, Scale |-> <<0, 1>>] /\ rs_i = 0
    /\ rs_pc = "idle"

MarshalIdle ==
    /\ ms_ct = [Value |-> <<>>, Scale |-> <<>>]
    /\ ms_target = [Value |-> <<>>, Scale |-> <<>>]
    /\ ms_data = <<>> /\ ms_err = "nil" /\ ms_new = FALSE /\ ms_pc = "idle"

PolyFastIdle ==
    /\ pf_degree = 0 /\ pf_M = 0 /\ pf_L = 0 /\ pf_i = 0 /\ pf_C = {}
    /\ pf_stack = <<>> /\ pf_mults = 0 /\ pf_pc = "idle"

NegIdle ==
    /\ ng_q = 0 /\ ng_in = <<>> /\ ng_c0 = <<>> /\ ng_cOut = <<>> /\ ng_i = 0
    /\ ng_ret = [isNil |-> TRUE, Value |-> <<>>] /\ ng_pc = "idle"

RlzIdle ==
    /\ rn_op = "none" /\ rn_degIn = 0 /\ rn_keyLen = 0 /\ rn_same = FALSE
    /\ rn_out = <<>> /\ rn_deg = 0 /\ rn_reads = <<>> /\ rn_err = "nil"
    /\ rn_pc = "idle"

DiagRedIdle ==
    /\ dr_vec = {} /\ dr_todo = {} /\ dr_QiOverF = 0 /\ dr_PiOverF = 0
    /\ dr_state = FALSE /\ dr_cnt = 0 /\ dr_log = <<>> /\ dr_pc = "idle"

SwIdle ==
    /\ sw_op = "none" /\ sw_degIn = 0 /\ sw_degOut = 0 /\ sw_same = FALSE
    /\ sw_key = 0 /\ sw_reads = <<>> /\ sw_ret = "nil" /\ sw_err = "nil"
    /\ sw_pc = "idle"

CtlIdle ==
    /\ LvlIdle
    /\ DecryptIdle
    /\ RotIdle
    /\ DiagIdle
    /\ BootIdle
    /\ PolyIdle
    /\ EncIdle
    /\ RescaleIdle
    /\ MarshalIdle
    /\ PolyFastIdle
    /\ NegIdle
    /\ RlzIdle
    /\ DiagRedIdle
    /\ SwIdle

\* One operation runs and every other one is idle.
lvAlone == CoreIdle /\ DecryptIdle /\ RotIdle /\ DiagIdle /\ BootIdle /\ PolyIdle /\ EncIdle /\ RescaleIdle /\ MarshalIdle /\ PolyFastIdle /\ NegIdle /\ RlzIdle /\ DiagRedIdle /\ SwIdle
dcAlone == CoreIdle /\ LvlIdle /\ RotIdle /\ DiagIdle /\ BootIdle /\ PolyIdle /\ EncIdle /\ RescaleIdle /\ MarshalIdle /\ PolyFastIdle /\ NegIdle /\ RlzIdle /\ DiagRedIdle /\ SwIdle
rotAlone == CoreIdle /\ LvlIdle /\ DecryptIdle /\ DiagIdle /\ BootIdle /\ PolyIdle /\ EncIdle /\ RescaleIdle /\ MarshalIdle /\ PolyFastIdle /\ NegIdle /\ RlzIdle /\ DiagRedIdle /\ SwIdle
mdAlone == CoreIdle /\ LvlIdle /\ DecryptIdle /\ RotIdle /\ BootIdle /\ PolyIdle /\ EncIdle /\ RescaleIdle /\ MarshalIdle /\ PolyFastIdle /\ NegIdle /\ RlzIdle /\ DiagRedIdle /\ SwIdle
bsAlone == CoreIdle /\ LvlIdle /\ DecryptIdle /\ RotIdle /\ DiagIdle /\ PolyIdle /\ EncIdle /\ RescaleIdle /\ MarshalIdle /\ PolyFastIdle /\ NegIdle /\ RlzIdle /\ DiagRedIdle /\ SwIdle
peAlone == CoreIdle /\ LvlIdle /\ DecryptIdle /\ RotIdle /\ DiagIdle /\ BootIdle /\ EncIdle /\ RescaleIdle /\ MarshalIdle /\ PolyFastIdle /\ NegIdle /\ RlzIdle /\ DiagRedIdle /\ SwIdle
enAlone == CoreIdle /\ LvlIdle /\ DecryptIdle /\ RotIdle /\ DiagIdle /\ BootIdle /\ PolyIdle /\ RescaleIdle /\ MarshalIdle /\ PolyFastIdle /\ NegIdle /\ RlzIdle /\ DiagRedIdle /\ SwIdle
rsAlone == CoreIdle /\ LvlIdle /\ DecryptIdle /\ RotIdle /\ DiagIdle /\ BootIdle /\ PolyIdle /\ EncIdle /\ MarshalIdle /\ PolyFastIdle /\ NegIdle /\ RlzIdle /\ DiagRedIdle /\ SwIdle
msAlone == CoreIdle /\ LvlIdle /\ DecryptIdle /\ RotIdle /\ DiagIdle /\ BootIdle /\ PolyIdle /\ EncIdle /\ RescaleIdle /\ PolyFastIdle /\ NegIdle /\ RlzIdle /\ DiagRedIdle /\ SwIdle
pfAlone == CoreIdle /\ LvlIdle /\ DecryptIdle /\ RotIdle /\ DiagIdle /\ BootIdle /\ PolyIdle /\ EncIdle /\ RescaleIdle /\ MarshalIdle /\ NegIdle /\ RlzIdle /\ DiagRedIdle /\ SwIdle
ngAlone == CoreIdle /\ LvlIdle /\ DecryptIdle /\ RotIdle /\ DiagIdle /\ BootIdle /\ PolyIdle /\ EncIdle /\ RescaleIdle /\ MarshalIdle /\ PolyFastIdle /\ RlzIdle /\ DiagRedIdle /\ SwIdle
rnAlone == CoreIdle /\ LvlIdle /\ DecryptIdle /\ RotIdle /\ DiagIdle /\ BootIdle /\ PolyIdle /\ EncIdle /\ RescaleIdle /\ MarshalIdle /\ PolyFastIdle /\ NegIdle /\ DiagRedIdle /\ SwIdle
drAlone == CoreIdle /\ LvlIdle /\ DecryptIdle /\ RotIdle /\ DiagIdle /\ BootIdle /\ PolyIdle /\ EncIdle /\ RescaleIdle /\ MarshalIdle /\ PolyFastIdle /\ NegIdle /\ RlzIdle /\ SwIdle
swAlone == CoreIdle /\ LvlIdle /\ DecryptIdle /\ RotIdle /\ DiagIdle /\ BootIdle /\ PolyIdle /\ EncIdle /\ RescaleIdle /\ MarshalIdle /\ PolyFastIdle /\ NegIdle /\ RlzIdle /\ DiagRedIdle

RedInit ==
    /\ CtlIdle
    /\ NTTIdle
    /\ KSIdle
    /\ RelinIdle
    /\ BEIdle
    /\ GInverseIdle
    /\ red_q \in Moduli
    /\ red_x \in 0 .. WordMod - 1
    /\ red_y \in 0 .. red_q - 1
    /\ red_op = "none"
    /\ red_r = 0

RedReturn(op, r) ==
    /\ red_op = "none"
    /\ red_op' = op
    /\ red_r' = r
    /\ UNCHANGED <<red_q, red_x, red_y>>
    /\ UNCHANGED <<nttVars, ksVars, rlVars, beVars, giVars, ctlVars>>

\* ring_test.go:342  BRed(x, y, q, BredParams[j])
CallBRed == RedReturn("BRed", BRed(red_x, red_y, red_q, BRedParams(red_q)))

\* ring_test.go:364  MRed(x, MForm(y, q, BredParams[j]), q, MredParams[j])
CallMRed ==
    RedReturn("MRed", MRed(red_x, MForm(red_y, red_q, BRedParams(red_q)), red_q, MRedParams(red_q)))

CallBRedConstant ==
    RedReturn("BRedConstant", BRedConstant(red_x, red_y, red_q, BRedParams(red_q)))

CallMRedConstant ==
    RedReturn("MRedConstant", MRedConstant(red_x, red_y, red_q, MRedParams(red_q)))

CallBRedAdd ==
    /\ red_y = 0
    /\ RedReturn("BRedAdd", BRedAdd(red_x, red_q, BRedParams(red_q)))

CallBRedAddConstant ==
    /\ red_y = 0
    /\ RedReturn("BRedAddConstant", BRedAddConstant(red_x, red_q, BRedParams(red_q)))

CallMFormConstant ==
    /\ red_y = 0
    /\ RedReturn("MFormConstant", MFormConstant(red_x, red_q, BRedParams(red_q)))

\* ring_test.go:399  ringQ.MForm(polWant, polTest), one coefficient
CallMForm ==
    /\ red_y = 0
    /\ RedReturn("MForm", MForm(red_x, red_q, BRedParams(red_q)))

\* ring_test.go:400  ringQ.InvMForm(polTest, polTest), on the coefficient MForm left
CallInvMForm ==
    /\ red_op = "MForm"
    /\ red_op' = "InvMForm"
    /\ red_r' = InvMForm(red_r, red_q, MRedParams(red_q))
    /\ UNCHANGED <<red_q, red_x, red_y>>
    /\ UNCHANGED <<nttVars, ksVars, rlVars, beVars, giVars, ctlVars>>

RedNext ==
    \/ CallBRed
    \/ CallMRed
    \/ CallBRedConstant
    \/ CallMRedConstant
    \/ CallBRedAdd
    \/ CallBRedAddConstant
    \/ CallMFormConstant
    \/ CallMForm
    \/ CallInvMForm

SpecRed == RedInit /\ [][RedNext]_vars

(***************************************************************************)
(* C2: for all x, y in [0, q), BRed(x, y, q, BRedParams(q)) and             *)
(* MRed(x, MForm(y, q, BRedParams(q)), q, MRedParams(q)) both return        *)
(* (x*y) mod q.                                                             *)
(***************************************************************************)
C2_MulReduceExact ==
    (red_op \in {"BRed", "MRed"} /\ red_x < red_q /\ red_y < red_q)
        => red_r = (red_x * red_y) % red_q

C2_Witness ==
    /\ red_op = "MRed" /\ red_q = 97 /\ red_x = 96 /\ red_y = 95
    /\ red_r = (96 * 95) % 97

(***************************************************************************)
(* C9: MRedConstant, BRedConstant, BRedAddConstant and MFormConstant return *)
(* a value in [0, 2q-1] for every operand their reducing counterparts       *)
(* accept (any word for x, a reduced y).                                    *)
(***************************************************************************)
C9_LazyRange ==
    red_op \in {"MRedConstant", "BRedConstant", "BRedAddConstant", "MFormConstant"}
        => red_r \in 0 .. 2 * red_q - 1

C9_Witness ==
    /\ red_op = "BRedConstant" /\ red_q = 113 /\ red_r >= red_q

(***************************************************************************)
(* C10: MForm maps a in [0, q) to a*2^WordBits mod q, a value in [0, q),    *)
(* and InvMForm(MForm(a)) = a.                                              *)
(***************************************************************************)
C10_MFormRoundTrip ==
    /\ (red_op = "MForm" /\ red_x < red_q)
          => red_r = (red_x * WordMod) % red_q
    /\ (red_op = "InvMForm" /\ red_x < red_q) => red_r = red_x

C10_Witness ==
    /\ red_op = "InvMForm" /\ red_q = 113 /\ red_x = 112 /\ red_r = 112

(***************************************************************************)
(* NTT followed by InvNTT on one limb, round by round.                     *)
(***************************************************************************)

\* Largest ring degree explored: N = 2^MaxLogN.
MaxLogN == 3

\* Coefficient values: the small ones, the middle and the top of [0, q).
CoefVals(q) == {1, 2, 3, 5, q \div 2, q - 2, q - 1}

\* Coefficient-domain inputs in [0, q): every polynomial with at most two
\* non-zero coefficients taken from CoefVals, every ramp a + b*k mod q, and
\* every polynomial over CoefVals whose coefficients repeat with period four
\* (all of them when N <= 4).
InputPolys(N, q) ==
    {[k \in 0 .. N - 1 |-> IF k = a THEN va ELSE IF k = b THEN vb ELSE 0] :
        a \in 0 .. N - 1, b \in 0 .. N - 1,
        va \in CoefVals(q) \cup {0}, vb \in CoefVals(q) \cup {0}}
    \cup
    {[k \in 0 .. N - 1 |-> (a + b * k) % q] : a \in 0 .. q - 1, b \in CoefVals(q)}
    \cup
    {[k \in 0 .. N - 1 |-> v[k % 4]] : v \in [0 .. 3 -> CoefVals(q) \cup {0}]}

NTTInit ==
    /\ CtlIdle
    /\ RedIdle
    /\ KSIdle
    /\ RelinIdle
    /\ BEIdle
    /\ GInverseIdle
    /\ \E q \in Moduli, logN \in 1 .. MaxLogN :
          /\ (q - 1) % Pow(2, logN + 1) = 0
          /\ ntt_ctx = NewContext(q, logN)
          /\ ntt_in \in InputPolys(Pow(2, logN), q)
    /\ ntt_coeffs = ntt_in
    /\ ntt_pc = "NTT"
    /\ ntt_m = 0
    /\ ntt_t = 0

\* ntt.go:58-63: the first round, t = N/2, F = nttPsi[1].
NTTFirstRound ==
    /\ ntt_pc = "NTT"
    /\ LET N == ntt_ctx.N
           t == N \div 2
       IN  /\ ntt_coeffs' = NTTRound(ntt_coeffs, N, 1, t, ntt_ctx.nttPsi,
                                     ntt_ctx.Modulus, ntt_ctx.mredParams)
           /\ ntt_t' = t
           /\ ntt_m' = 2
           /\ ntt_pc' = IF 2 < N THEN "NTTRounds" ELSE "NTTFinal"
    /\ UNCHANGED <<ntt_ctx, ntt_in>>
    /\ UNCHANGED <<redVars, ksVars, rlVars, beVars, giVars, ctlVars>>

\* ntt.go:66-80: one iteration of the loop over m.
NTTNextRound ==
    /\ ntt_pc = "NTTRounds"
    /\ ntt_m < ntt_ctx.N
    /\ LET t == ntt_t \div 2
       IN  /\ ntt_coeffs' = NTTRound(ntt_coeffs, ntt_ctx.N, ntt_m, t, ntt_ctx.nttPsi,
                                     ntt_ctx.Modulus, ntt_ctx.mredParams)
           /\ ntt_t' = t
           /\ ntt_m' = 2 * ntt_m
           /\ ntt_pc' = IF 2 * ntt_m < ntt_ctx.N THEN "NTTRounds" ELSE "NTTFinal"
    /\ UNCHANGED <<ntt_ctx, ntt_in>>
    /\ UNCHANGED <<redVars, ksVars, rlVars, beVars, giVars, ctlVars>>

\* ntt.go:83-85: the exact reduction that ends NTT.
NTTFinalPass ==
    /\ ntt_pc = "NTTFinal"
    /\ ntt_coeffs' = NTTFinal(ntt_coeffs, ntt_ctx.N, ntt_ctx.Modulus, ntt_ctx.bredParams)
    /\ ntt_pc' = "InvNTT"
    /\ UNCHANGED <<ntt_ctx, ntt_in, ntt_m, ntt_t>>
    /\ UNCHANGED <<redVars, ksVars, rlVars, beVars, giVars, ctlVars>>

\* ntt.go:95-113: the first inverse round, t = 1, h = N/2.
InvNTTFirstRound ==
    /\ ntt_pc = "InvNTT"
    /\ LET N == ntt_ctx.N
           h == N \div 2
       IN  /\ ntt_coeffs' = InvNTTRound(ntt_coeffs, N, h, 1, ntt_ctx.nttPsiInv,
                                        ntt_ctx.Modulus, ntt_ctx.mredParams)
           /\ ntt_t' = 2
           /\ ntt_m' = h
           /\ ntt_pc' = IF h > 1 THEN "InvNTTRounds" ELSE "InvNTTFinal"
    /\ UNCHANGED <<ntt_ctx, ntt_in>>
    /\ UNCHANGED <<redVars, ksVars, rlVars, beVars, giVars, ctlVars>>

\* ntt.go:114-133: one iteration of the loop over m.
InvNTTNextRound ==
    /\ ntt_pc = "InvNTTRounds"
    /\ ntt_m > 1
    /\ LET h == ntt_m \div 2
       IN  /\ ntt_coeffs' = InvNTTRound(ntt_coeffs, ntt_ctx.N, h, ntt_t, ntt_ctx.nttPsiInv,
                                        ntt_ctx.Modulus, ntt_ctx.mredParams)
           /\ ntt_t' = 2 * ntt_t
           /\ ntt_m' = h
           /\ ntt_pc' = IF h > 1 THEN "InvNTTRounds" ELSE "InvNTTFinal"
    /\ UNCHANGED <<ntt_ctx, ntt_in>>
    /\ UNCHANGED <<redVars, ksVars, rlVars, beVars, giVars, ctlVars>>

\* ntt.go:136-138: the multiplication by 1/N that ends InvNTT.
InvNTTFinalPass ==
    /\ ntt_pc = "InvNTTFinal"
    /\ ntt_coeffs' = InvNTTFinal(ntt_coeffs, ntt_ctx.N, ntt_ctx.nttNInv,
                                 ntt_ctx.Modulus, ntt_ctx.mredParams)
    /\ ntt_pc' = "Done"
    /\ UNCHANGED <<ntt_ctx, ntt_in, ntt_m, ntt_t>>
    /\ UNCHANGED <<redVars, ksVars, rlVars, beVars, giVars, ctlVars>>

NTTNext ==
    \/ NTTFirstRound
    \/ NTTNextRound
    \/ NTTFinalPass
    \/ InvNTTFirstRound
    \/ InvNTTNextRound
    \/ InvNTTFinalPass

SpecNTT == NTTInit /\ [][NTTNext]_vars

Coeffs == 0 .. ntt_ctx.N - 1

(***************************************************************************)
(* C1: InvNTT(NTT(p)) = p, coefficient for coefficient, for every          *)
(* coefficient-domain p with entries in [0, q).                            *)
(***************************************************************************)
C1_NTTRoundTrip ==
    ntt_pc = "Done" => ntt_coeffs = ntt_in

C1_Witness ==
    /\ ntt_pc = "Done" /\ ntt_ctx.N = 8 /\ ntt_ctx.Modulus = 113
    /\ ntt_in[0] = 112 /\ ntt_in[7] = 111
    /\ ntt_coeffs = ntt_in

(***************************************************************************)
(* C8 as stated: the butterfly rounds of the forward NTT leave every       *)
(* coefficient in [0, 2q) and the final pass reduces it to [0, q).         *)
(***************************************************************************)
C8_Original ==
    /\ ntt_pc = "NTTFinal" => \A k \in Coeffs : ntt_coeffs[k] < 2 * ntt_ctx.Modulus
    /\ ntt_pc = "InvNTT" => \A k \in Coeffs : ntt_coeffs[k] < ntt_ctx.Modulus

(***************************************************************************)
(* C8 amended: the butterfly rounds of the forward NTT leave every         *)
(* coefficient in [0, 4q), and the final pass reduces it to [0, q).        *)
(***************************************************************************)
C8_LazyRange4q ==
    /\ ntt_pc \in {"NTTRounds", "NTTFinal"}
          => \A k \in Coeffs : ntt_coeffs[k] < 4 * ntt_ctx.Modulus
    /\ ntt_pc = "InvNTT" => \A k \in Coeffs : ntt_coeffs[k] < ntt_ctx.Modulus

C8_Witness ==
    /\ ntt_pc = "NTTFinal" /\ ntt_ctx.N = 8
    /\ \E k \in Coeffs : ntt_coeffs[k] >= 3 * ntt_ctx.Modulus

(***************************************************************************)
(* C11: with N = 8 and q = 17, NTT followed by InvNTT on the coefficient   *)
(* vector [3,5,0,0,0,0,0,0] returns exactly [3,5,0,0,0,0,0,0].             *)
(***************************************************************************)
Scenario == [k \in 0 .. 7 |-> IF k = 0 THEN 3 ELSE IF k = 1 THEN 5 ELSE 0]

C11_ScenarioRoundTrip ==
    (/\ ntt_pc = "Done" /\ ntt_ctx.N = 8 /\ ntt_ctx.Modulus = 17
     /\ ntt_in = Scenario)
        => /\ ntt_coeffs[0] = 3 /\ ntt_coeffs[1] = 5
           /\ \A k \in 2 .. 7 : ntt_coeffs[k] = 0

C11_Witness ==
    /\ ntt_pc = "Done" /\ ntt_ctx.N = 8 /\ ntt_ctx.Modulus = 17
    /\ ntt_in = Scenario
    /\ ntt_coeffs = Scenario

(***************************************************************************)
(* switchKeys (dbfv/publickey_gen.go:840-880), one sub-step per action.    *)
(***************************************************************************)

\* Largest ring degree explored by switchKeys: N = 2^KSMaxLogN.
KSMaxLogN == 2

\* Largest digit width bitDecomp explored.
MaxBitDecomp == 4

\* The moduli chains contextQ.Modulus explored.
KSChains == {<<17>>, <<17, 97>>, <<97, 113>>}

\* The key families explored: all entries q - 1, and two index-dependent ones.
KeySeeds == {0, 1, 6}

\* Coefficient u of limb v of evakey.evakey[i][j][b] in family s.
KeyCoef(s, i, j, b, v, u, q) ==
    IF s = 0 THEN q - 1
    ELSE (s * (1 + 3 * i + 5 * j) + 7 * b + 11 * u + 13 * v) % q

\* Switching keys: BitLog digits per modulus, two polynomials per digit.
EvaKeys(context, bitDecomp) ==
    {[i \in 1 .. Len(context) |->
        [j \in 1 .. BitLog(context[i].Modulus, bitDecomp) |->
            [b \in 1 .. 2 |->
                [v \in 1 .. Len(context) |->
                    [u \in 0 .. context[1].N - 1 |->
                        KeyCoef(s, i, j, b, v, u, context[v].Modulus)]]]]] :
     s \in KeySeeds}

\* The polynomials c2 explored: limb v holds a + b*u + 40*(v-1) mod q_v.
C2Polys(context) ==
    {[v \in 1 .. Len(context) |->
        [u \in 0 .. context[1].N - 1 |->
            (a + b * u + 40 * (v - 1)) % context[v].Modulus]] :
     a \in {0, 1, 15, 16, 63, 96, 112}, b \in {0, 1, 30}}

\* The values cOut holds when switchKeys starts (its callers put NTT(cIn)
\* there): all zero, all q - 1, or index-dependent, each in [0, q).
EntryPolys(context) ==
    {[b \in 1 .. 2 |->
        [v \in 1 .. Len(context) |->
            [u \in 0 .. context[1].N - 1 |->
                IF e = 0 THEN 0
                ELSE IF e = 1 THEN context[v].Modulus - 1
                ELSE (b + 2 * v + 3 * u) % context[v].Modulus]]] :
     e \in 0 .. 2}

ZeroPoly(context) ==
    [v \in 1 .. Len(context) |-> [u \in 0 .. context[1].N - 1 |-> 0]]

SwitchKeysInit ==
    /\ \E chain \in KSChains, logN \in 1 .. KSMaxLogN :
          ks_context = [v \in 1 .. Len(chain) |-> NewContext(chain[v], logN)]
    /\ ks_bitDecomp \in 1 .. MaxBitDecomp
    /\ ks_evakey \in EvaKeys(ks_context, ks_bitDecomp)
    /\ ks_c2 \in C2Polys(ks_context)
    /\ ks_cIn \in EntryPolys(ks_context)
    /\ ks_cOut = ks_cIn
    /\ ks_c2_qi_w = ZeroPoly(ks_context)
    /\ ks_i = 1
    /\ ks_j = 0
    /\ ks_reduce = 0
    /\ ks_pc = "Decompose"
    /\ ks_digits = [i \in 1 .. Len(ks_context) |-> <<>>]
    /\ ks_log = <<>>

\* The loop step that leaves the loops after the digits of one modulus.
KSLoopStepOneModulus(i, j, bitLog, nModuli) ==
    IF j + 1 < bitLog THEN <<i, j + 1, "Decompose">> ELSE <<i, j, "Final">>

\* publickey_gen.go:850,854: the loop steps "for i := range Modulus" and
\* "for j < bitLog" taken after digit (i, j): the next digit of modulus i,
\* the first digit of modulus i + 1, or the end of the loops.
KSLoopStep(i, j, bitLog, nModuli) ==
    IF j + 1 < bitLog THEN <<i, j + 1, "Decompose">>
    ELSE IF i < nModuli THEN <<i + 1, 0, "Decompose">>
    ELSE <<i, j, "Final">>

\* publickey_gen.go:856-860: the digit (i, j) of c2 written to c2_qi_w.
KSDecompose ==
    /\ ks_pc = "Decompose"
    /\ ks_i <= Len(ks_context)
    /\ ks_j < Len(ks_evakey[ks_i])
    /\ ks_c2_qi_w' = DigitPoly(ks_c2, ks_i, ks_j, ks_bitDecomp, ks_context)
    /\ ks_digits' = [ks_digits EXCEPT ![ks_i] = Append(@, ks_c2_qi_w'[ks_i])]
    /\ ks_log' = Append(ks_log, <<"Decompose", ks_i, ks_j>>)
    /\ ks_pc' = "NTT"
    /\ UNCHANGED <<ks_context, ks_bitDecomp, ks_evakey, ks_c2, ks_cIn, ks_cOut,
                   ks_i, ks_j, ks_reduce>>
    /\ UNCHANGED <<redVars, nttVars, rlVars, beVars, giVars, ctlVars>>

\* publickey_gen.go:862: contextQ.NTT(c2_qi_w, c2_qi_w).
KSNTT ==
    /\ ks_pc = "NTT"
    /\ ks_c2_qi_w' = ContextNTT(ks_c2_qi_w, ks_context)
    /\ ks_log' = Append(ks_log, <<"NTT", ks_i, ks_j>>)
    /\ ks_pc' = "Accumulate"
    /\ UNCHANGED <<ks_context, ks_bitDecomp, ks_evakey, ks_c2, ks_cIn, ks_cOut,
                   ks_i, ks_j, ks_reduce, ks_digits>>
    /\ UNCHANGED <<redVars, nttVars, rlVars, beVars, giVars, ctlVars>>

\* publickey_gen.go:864-872 and the loop steps of 850 and 854: the two
\* multiply-accumulates, the Reduce of every eighth digit, reduce += 1, and
\* the move to the next digit or out of the loops.
KSAccumulate ==
    /\ ks_pc = "Accumulate"
    /\ LET acc0  == MulCoeffsMontgomeryAndAddNoMod(
                        EvaKeyEntry(ks_evakey, ks_i, ks_j, 1), ks_c2_qi_w,
                        ks_cOut[1], ks_context)
           acc1  == MulCoeffsMontgomeryAndAddNoMod(
                        EvaKeyEntry(ks_evakey, ks_i, ks_j, 2), ks_c2_qi_w,
                        ks_cOut[2], ks_context)
           red   == And(ks_reduce, 7) = 7
           step  == <<"Accumulate", ks_i, ks_j>>
       IN  /\ ks_cOut' = IF red THEN <<Reduce(acc0, ks_context), Reduce(acc1, ks_context)>>
                         ELSE <<acc0, acc1>>
           /\ ks_log' = IF red THEN ks_log \o <<step, <<"Reduce", ks_i, ks_j>>>>
                        ELSE Append(ks_log, step)
    /\ ks_reduce' = Wrap(ks_reduce + 1)
    /\ LET next == KSLoopStep(ks_i, ks_j, Len(ks_evakey[ks_i]), Len(ks_context))
       IN  ks_i' = next[1] /\ ks_j' = next[2] /\ ks_pc' = next[3]
    /\ UNCHANGED <<ks_context, ks_bitDecomp, ks_evakey, ks_c2, ks_cIn,
                   ks_c2_qi_w, ks_digits>>
    /\ UNCHANGED <<redVars, nttVars, rlVars, beVars, giVars, ctlVars>>

\* The Reduce after the loops tested on reduce instead of reduce - 1.
KSFinalReduceNoDecrement ==
    /\ ks_pc = "Final"
    /\ IF And(ks_reduce, 7) # 7
       THEN /\ ks_cOut' = <<Reduce(ks_cOut[1], ks_context), Reduce(ks_cOut[2], ks_context)>>
            /\ ks_log' = Append(ks_log, <<"Reduce", ks_i, ks_j>>)
       ELSE UNCHANGED <<ks_cOut, ks_log>>
    /\ ks_pc' = "Done"
    /\ UNCHANGED <<ks_context, ks_bitDecomp, ks_evakey, ks_c2, ks_cIn,
                   ks_c2_qi_w, ks_i, ks_j, ks_reduce, ks_digits>>
    /\ UNCHANGED <<redVars, nttVars, rlVars, beVars, giVars, ctlVars>>

\* publickey_gen.go:876-879: the Reduce after the loops, unless the last
\* digit was itself followed by one.
KSFinalReduce ==
    /\ ks_pc = "Final"
    /\ IF And(Wrap(ks_reduce - 1), 7) # 7
       THEN /\ ks_cOut' = <<Reduce(ks_cOut[1], ks_context), Reduce(ks_cOut[2], ks_context)>>
            /\ ks_log' = Append(ks_log, <<"Reduce", ks_i, ks_j>>)
       ELSE UNCHANGED <<ks_cOut, ks_log>>
    /\ ks_pc' = "Done"
    /\ UNCHANGED <<ks_context, ks_bitDecomp, ks_evakey, ks_c2, ks_cIn,
                   ks_c2_qi_w, ks_i, ks_j, ks_reduce, ks_digits>>
    /\ UNCHANGED <<redVars, nttVars, rlVars, beVars, giVars, ctlVars>>

(***************************************************************************)
(* Relinearization (mkrlwe, part_001:11-88): the calls it makes, in order. *)
(***************************************************************************)

\* Largest number of parties k explored.
MaxParties == 2

RelinInit ==
    /\ rl_k \in 1 .. MaxParties
    /\ rl_i = 1
    /\ rl_j = 1
    /\ rl_pc = "GInverseIJ"
    /\ rl_log = <<>>

RelinCall(pc, op, next) ==
    /\ rl_pc = pc
    /\ rl_log' = Append(rl_log, <<op, rl_i, rl_j>>)
    /\ rl_pc' = next
    /\ UNCHANGED <<rl_k, rl_i, rl_j>>
    /\ UNCHANGED <<redVars, nttVars, ksVars, beVars, giVars, ctlVars>>

\* part_001:41  GInverse(cipherParts[i*(k+1)+j])
RelinGInverseIJ == RelinCall("GInverseIJ", "GInverse", "DotPk")

\* part_001:43-44  DotLvl / Dot of the digits with the public key
RelinDotPk == RelinCall("DotPk", "Dot", "ModDownIJ")

\* part_001:48  ModDownSplitNTTPQ(cIJtmpQ, cIJtmpP, cIJPrime)
RelinModDownIJ == RelinCall("ModDownIJ", "ModDown", "GInverseTmp")

\* part_001:50  GInverse(cIJPrime)
RelinGInverseTmp == RelinCall("GInverseTmp", "GInverse", "DotD0D1")

\* part_001:52-62  Dot with d0 and d1, added to restmp[0] and restmp[i]
RelinDotD0D1 == RelinCall("DotD0D1", "Dot", "DotD2")

\* part_001:64-68 and the loop steps of 33 and 37: Dot of the first digits
\* with d2, added to restmp[j]; then the next (i, j) or the end of the loops.
RelinDotD2 ==
    /\ rl_pc = "DotD2"
    /\ rl_log' = Append(rl_log, <<"Dot", rl_i, rl_j>>)
    /\ IF rl_j < rl_k
       THEN rl_i' = rl_i /\ rl_j' = rl_j + 1 /\ rl_pc' = "GInverseIJ"
       ELSE IF rl_i < rl_k
       THEN rl_i' = rl_i + 1 /\ rl_j' = 1 /\ rl_pc' = "GInverseIJ"
       ELSE rl_i' = 0 /\ rl_j' = 0 /\ rl_pc' = "ModDownRes"
    /\ UNCHANGED rl_k
    /\ UNCHANGED <<redVars, nttVars, ksVars, beVars, giVars, ctlVars>>

\* part_001:75-85: ModDownSplitNTTPQ of restmp[0], then of restmp[i] for
\* i = 1..k, each added to the result; SetValue ends the call.
RelinModDownRes ==
    /\ rl_pc = "ModDownRes"
    /\ rl_log' = Append(rl_log, <<"ModDown", rl_i, 0>>)
    /\ IF rl_i < rl_k
       THEN rl_i' = rl_i + 1 /\ rl_pc' = "ModDownRes"
       ELSE rl_i' = rl_i /\ rl_pc' = "Done"
    /\ UNCHANGED <<rl_k, rl_j>>
    /\ UNCHANGED <<redVars, nttVars, ksVars, beVars, giVars, ctlVars>>

(***************************************************************************)
(* GInverse (mkrlwe, part_001:150-211): the RNS gadget decomposition.      *)
(***************************************************************************)

\* The pairs of bases (Q, P) explored; their moduli allow N = 2.
GIBases ==
    { <<<<5, 13>>, <<17>>>>, <<<<13, 17>>, <<5, 29>>>>, <<<<5, 13, 17>>, <<29, 37>>>> }

\* The integer coefficients explored, in [0, prod Q).
GICoefVals(QQ) == {0, 1, 7, 100 % QQ, QQ \div 2, QQ \div 2 + 1, QQ - 1}

\* Limb v of the polynomial with integer coefficients c, coefficient domain.
PolyResidues(c, ring) ==
    [v \in 1 .. Len(ring) |-> [u \in DOMAIN c |-> c[u] % ring[v].Modulus]]

ModuliOf(ring) == [v \in 1 .. Len(ring) |-> ring[v].Modulus]

GInverseInit ==
    /\ \E b \in GIBases :
          /\ gi_ringQ = [v \in 1 .. Len(b[1]) |-> NewContext(b[1][v], 1)]
          /\ gi_ringP = [v \in 1 .. Len(b[2]) |-> NewContext(b[2][v], 1)]
    /\ gi_c \in [0 .. 1 -> GICoefVals(ProdSeq(ModuliOf(gi_ringQ)))]
    /\ gi_p = ContextNTT(PolyResidues(gi_c, gi_ringQ), gi_ringQ)
    /\ gi_invPoly = <<>>
    /\ gi_i = 0
    /\ gi_polynomialsQ = <<>>
    /\ gi_polynomialsP = <<>>
    /\ gi_pc = "InvNTT"

\* part_001:163-164: invPoly = InvNTT(p).
GInverseInvNTT ==
    /\ gi_pc = "InvNTT"
    /\ gi_invPoly' = ContextInvNTT(gi_p, gi_ringQ)
    /\ gi_pc' = "Decompose"
    /\ UNCHANGED <<gi_ringQ, gi_ringP, gi_c, gi_p, gi_i, gi_polynomialsQ, gi_polynomialsP>>
    /\ UNCHANGED <<redVars, nttVars, ksVars, rlVars, beVars, ctlVars>>

\* part_001:166-173,182-211: digit i.  DecomposeAndSplit writes the digit
\* over Q and P in the coefficient domain; the limbs of group i are then
\* taken from p, the other limbs of Q and the limbs of P go through NTTLazy.
GInverseDigit ==
    /\ gi_pc = "Decompose"
    /\ gi_i < Beta(ModuliOf(gi_ringQ), ModuliOf(gi_ringP))
    /\ LET Q   == ModuliOf(gi_ringQ)
           P   == ModuliOf(gi_ringP)
           dig == [u \in DOMAIN gi_c |->
                      DecomposeAndSplitCoeff(gi_i, [v \in 1 .. Len(Q) |-> gi_invPoly[v][u]], Q, P)]
           c2QiQ == [v \in 1 .. Len(Q) |->
                      IF v \in GroupLimbs(gi_i, Q, P) THEN gi_p[v]
                      ELSE NTTLazy([u \in DOMAIN gi_c |-> dig[u][v]], gi_ringQ[v])]
           c2QiP == [v \in 1 .. Len(P) |->
                      NTTLazy([u \in DOMAIN gi_c |-> dig[u][Len(Q) + v]], gi_ringP[v])]
       IN  /\ gi_polynomialsQ' = Append(gi_polynomialsQ, c2QiQ)
           /\ gi_polynomialsP' = Append(gi_polynomialsP, c2QiP)
           /\ gi_pc' = IF gi_i + 1 < Beta(Q, P) THEN "Decompose" ELSE "Done"
    /\ gi_i' = gi_i + 1
    /\ UNCHANGED <<gi_ringQ, gi_ringP, gi_c, gi_p, gi_invPoly>>
    /\ UNCHANGED <<redVars, nttVars, ksVars, rlVars, beVars, ctlVars>>

KSInit ==
    /\ CtlIdle
    /\ RedIdle
    /\ NTTIdle
    /\ BEIdle
    /\ \/ SwitchKeysInit /\ RelinIdle /\ GInverseIdle
       \/ KSIdle /\ RelinInit /\ GInverseIdle
       \/ KSIdle /\ RelinIdle /\ GInverseInit

KSNext ==
    \/ KSDecompose
    \/ KSNTT
    \/ KSAccumulate
    \/ KSFinalReduce
    \/ RelinGInverseIJ
    \/ RelinDotPk
    \/ RelinModDownIJ
    \/ RelinGInverseTmp
    \/ RelinDotD0D1
    \/ RelinDotD2
    \/ RelinModDownRes
    \/ GInverseInvNTT
    \/ GInverseDigit

SpecKS == KSInit /\ [][KSNext]_vars

(***************************************************************************)
(* Reference values, computed over the integers.                           *)
(***************************************************************************)
\* The evaluation of the polynomial p at the odd power of psi that the
\* forward transform leaves at index k: psi^(2*bitrev(k) + 1).
EvalAt(p, k, ctx) ==
    LET x == ModExp(ctx.psi, 2 * BitReverse64(k, ctx.logN) + 1, ctx.Modulus)
    IN  SumSeq([u \in 1 .. ctx.N |->
                  ((p[u - 1] % ctx.Modulus) * ModExp(x, u - 1, ctx.Modulus)) % ctx.Modulus])
        % ctx.Modulus

\* The value a stands for when a is in Montgomery form: a * 2^-WordBits mod q.
FromMontgomery(a, q) == (a * ModExp(WordMod % q, q - 2, q)) % q

\* Sum over all digits (i, j) of digit * key entry b, at index u of limb v,
\* the digits taken from ks_digits and each paired with evakey[i][j][b].
KSDigitSum(b, v, u) ==
    LET ctx == ks_context[v]
    IN  SumSeq([i \in 1 .. Len(ks_digits) |->
            SumSeq([j \in 1 .. Len(ks_digits[i]) |->
                (EvalAt(ks_digits[i][j], u, ctx)
                   * FromMontgomery(ks_evakey[i][j][b][v][u], ctx.Modulus))
                % ctx.Modulus])])

KSIndices ==
    {<<b, v, u>> : b \in 1 .. 2, v \in 1 .. Len(ks_context), u \in 0 .. ks_context[1].N - 1}

(***************************************************************************)
(* C4 as stated: when switchKeys is done the two accumulators are exactly  *)
(* the sums over the digits of digit * d0 and digit * d1, in every limb.   *)
(***************************************************************************)
C4_Original ==
    ks_pc = "Done" =>
        \A x \in KSIndices :
            ks_cOut[x[1]][x[2]][x[3]]
                = KSDigitSum(x[1], x[2], x[3]) % ks_context[x[2]].Modulus

(***************************************************************************)
(* C4 amended: when switchKeys is done, each accumulator is, in every limb *)
(* and reduced to [0, q), the value it held on entry plus the sum over the *)
(* digits of digit * d0 (resp. d1), every digit (i, j) of every modulus    *)
(* counted once and multiplied by the key entry of the same index (i, j).  *)
(***************************************************************************)
C4_EntryPlusDigitSum ==
    ks_pc = "Done" =>
        /\ \A i \in 1 .. Len(ks_context) : Len(ks_digits[i]) = Len(ks_evakey[i])
        /\ \A x \in KSIndices :
            ks_cOut[x[1]][x[2]][x[3]]
                = (ks_cIn[x[1]][x[2]][x[3]] + KSDigitSum(x[1], x[2], x[3]))
                    % ks_context[x[2]].Modulus

C4_Witness ==
    /\ ks_pc = "Done"
    /\ Len(ks_context) = 2 /\ ks_context[1].N = 4 /\ ks_bitDecomp = 1
    /\ ks_reduce = 12
    /\ ks_cIn[1][1][0] = ks_context[1].Modulus - 1
    /\ ks_cOut[1][2][3] # ks_cIn[1][2][3]
    /\ \E x \in KSIndices : KSDigitSum(x[1], x[2], x[3]) > 2 * ks_context[x[2]].Modulus

(***************************************************************************)
(* The order of the sub-steps of a key switch.                             *)
(***************************************************************************)
KSNotReduce(e) == e[1] # "Reduce"

\* The digits of the key: (i, j) for every modulus i and 0 <= j < bitLog_i.
KSAllDigits ==
    UNION {{<<i, j>> : j \in 0 .. Len(ks_evakey[i]) - 1} : i \in 1 .. Len(ks_evakey)}

Before(d, e) == d[1] < e[1] \/ (d[1] = e[1] /\ d[2] < e[2])

BEBases ==
    { <<<<5, 13>>, <<17>>>>, <<<<13, 17>>, <<5>>>>, <<<<17>>, <<5, 13>>>>,
      <<<<5, 13>>, <<17, 29>>>> }

Residues(x, M) == [i \in 1 .. Len(M) |-> x % M[i]]

BEInit ==
    /\ CtlIdle
    /\ RedIdle
    /\ NTTIdle
    /\ KSIdle
    /\ RelinIdle
    /\ GInverseIdle
    /\ \E b \in BEBases : be_Q = b[1] /\ be_P = b[2]
    /\ be_x \in 0 .. ProdSeq(be_Q) * ProdSeq(be_P) - 1
    /\ be_pQ = Residues(be_x, be_Q)
    /\ be_pP = Residues(be_x, be_P)
    /\ be_op = "none"
    /\ be_res = <<>>

BEReturn(op, res) ==
    /\ be_op = "none"
    /\ be_op' = op
    /\ be_res' = res
    /\ UNCHANGED <<be_Q, be_P, be_x, be_pQ, be_pP>>
    /\ UNCHANGED <<redVars, nttVars, ksVars, rlVars, giVars, ctlVars>>

\* ring_test.go:467-477: a coefficient below the product of Q, extended to P.
CallModUpSplitQP ==
    /\ be_x < ProdSeq(be_Q)
    /\ BEReturn("ModUpSplitQP", ModUpExact(be_pQ, be_Q, be_P))

\* modDown(Q u P, P, p) on a coefficient held in basis Q u P.
CallModDown == BEReturn("ModDown", ModDown(be_pQ, be_pP, be_Q, be_P))

\* ring_test.go:204: DivRoundByLastModulusMany removing the moduli of P.
CallDivRoundByLastModulusMany ==
    BEReturn("DivRoundByLastModulusMany",
             DivRoundByLastModulusMany(be_pQ \o be_pP, be_Q \o be_P, Len(be_P)))

BENext ==
    \/ CallModUpSplitQP
    \/ CallModDown
    \/ CallDivRoundByLastModulusMany

SpecBE == BEInit /\ [][BENext]_vars

\* The integer in [0, prod M) with the residues r (CRT reconstruction).
CRT(r, M) ==
    SumSeq([i \in 1 .. Len(M) |->
        LET Mi == ProdSeq(M) \div M[i]
        IN  (((r[i] * ModInv(Mi, M[i])) % M[i]) * Mi) % ProdSeq(M)]) % ProdSeq(M)

\* round(a / b) on non-negative integers, halves rounded up (ring.DivRound).
DivRound(a, b) == (2 * a + b) \div (2 * b)

\* ring_test.go:190-196: the reference of the test, DivRound by each of the
\* last nbRescals moduli in turn, on the integer.
RECURSIVE DivRoundWant(_, _, _)
DivRoundWant(x, M, nbRescals) ==
    IF nbRescals = 0 THEN x
    ELSE DivRoundWant(DivRound(x, M[Len(M)]), SubSeq(M, 1, Len(M) - 1), nbRescals - 1)

(***************************************************************************)
(* C7: for a coefficient in [0, prod Q) held by its residues in basis Q,   *)
(* the extension to P leaves in every P-limb the residue of the same       *)
(* integer, so that its CRT reconstruction over P is the integer modulo    *)
(* the product of P.                                                       *)
(***************************************************************************)
C7_ExtendExact ==
    be_op = "ModUpSplitQP" =>
        /\ \A j \in 1 .. Len(be_P) : be_res[j] = be_x % be_P[j]
        /\ CRT(be_res, be_P) = be_x % ProdSeq(be_P)

C7_Witness ==
    /\ be_op = "ModUpSplitQP"
    /\ be_Q = <<5, 13>> /\ be_P = <<17, 29>>
    /\ be_x = 64 /\ be_res = <<13, 6>>

(***************************************************************************)
(* C6: for a coefficient x held in basis Q u P, modDown (and the rounded   *)
(* division by the last moduli, DivRoundByLastModulusMany) leaves in every *)
(* Q-limb the residue of round(x / prod P): the integer r it stands for    *)
(* satisfies |r * prod P - x| <= prod P / 2, and is the one the reference  *)
(* big-integer division of the test gives.                                 *)
(***************************************************************************)
C6_ModDownRounds ==
    be_op \in {"ModDown", "DivRoundByLastModulusMany"} =>
        LET PP == ProdSeq(be_P)
            r  == DivRound(be_x, PP)
        IN  /\ \A i \in 1 .. Len(be_Q) : be_res[i] = r % be_Q[i]
            /\ 2 * (r * PP - be_x) <= PP /\ 2 * (be_x - r * PP) <= PP
            /\ r = DivRoundWant(be_x, be_Q \o be_P, Len(be_P))

C6_Witness ==
    /\ be_op = "ModDown"
    /\ be_Q = <<5, 13>> /\ be_P = <<17, 29>>
    /\ be_x = 17 * 29 * 7 + 247
    /\ be_res = <<3, 8>>

(***************************************************************************)
(* The digits of GInverse, back in the coefficient domain.                 *)
(***************************************************************************)
GIModuli == ModuliOf(gi_ringQ) \o ModuliOf(gi_ringP)

\* The integer in [-M/2, M/2) that coefficient u of digit i (from 1) stands
\* for, reconstructed over all the limbs of Q and P.
GIDigitCoeff(i, u) ==
    LET LQ == Len(gi_ringQ)
        r  == [v \in 1 .. Len(GIModuli) |->
                  IF v <= LQ THEN InvNTT(gi_polynomialsQ[i][v], gi_ringQ[v])[u]
                  ELSE InvNTT(gi_polynomialsP[i][v - LQ], gi_ringP[v - LQ])[u]]
        D  == CRT(r, GIModuli)
    IN  IF 2 * D >= ProdSeq(GIModuli) THEN D - ProdSeq(GIModuli) ELSE D

\* The product of the moduli of group i (from 0).
GIGroupProduct(i) ==
    ProdSeq(LimbSeq(GroupLimbs(i, ModuliOf(gi_ringQ), ModuliOf(gi_ringP)),
                    ModuliOf(gi_ringQ)))

(***************************************************************************)
(* C5: the digits reconstruct the polynomial.  RNS decomposition           *)
(* (GInverse): every coefficient of digit i, reconstructed over Q and P,   *)
(* is congruent to the coefficient of c modulo the product of the limbs of *)
(* group i, and at most half that product in absolute value.  Bit          *)
(* decomposition (switchKeys): for every modulus i and coefficient u,      *)
(* sum_j digit_{i,j} * 2^(j*bitDecomp) = c2.Coeffs[i][u], each digit is    *)
(* below 2^bitDecomp, and every limb of the scratch polynomial holds it.   *)
(***************************************************************************)
C5_DigitsReconstruct ==
    /\ gi_pc = "Done" =>
        \A i \in 1 .. Len(gi_polynomialsQ) : \A u \in DOMAIN gi_c :
            /\ (GIDigitCoeff(i, u) - gi_c[u]) % GIGroupProduct(i - 1) = 0
            /\ 2 * GIDigitCoeff(i, u) <= GIGroupProduct(i - 1)
            /\ -2 * GIDigitCoeff(i, u) <= GIGroupProduct(i - 1)
    /\ gi_pc = "Done" =>
        Len(gi_polynomialsQ) = Beta(ModuliOf(gi_ringQ), ModuliOf(gi_ringP))
    /\ ks_pc = "Done" =>
        \A i \in 1 .. Len(ks_context) : \A u \in 0 .. ks_context[1].N - 1 :
            /\ SumSeq([j \in 1 .. Len(ks_digits[i]) |->
                          ks_digits[i][j][u] * Pow(2, (j - 1) * ks_bitDecomp)])
                 = ks_c2[i][u]
            /\ \A j \in 1 .. Len(ks_digits[i]) :
                 ks_digits[i][j][u] < Pow(2, ks_bitDecomp)
    /\ ks_pc = "NTT" =>
        \A v \in 1 .. Len(ks_context) : ks_c2_qi_w[v] = ks_c2_qi_w[ks_i]

C5_Witness ==
    /\ ks_pc = "Done"
    /\ Len(ks_context) = 2 /\ ks_bitDecomp = 3
    /\ ks_c2[2][0] = 103
    /\ ks_digits[2][1][0] = 7 /\ ks_digits[2][2][0] = 4 /\ ks_digits[2][3][0] = 1

\* A GInverse whose second digit is negative in the coefficient domain.
C5_WitnessRNS ==
    /\ gi_pc = "Done"
    /\ Len(gi_ringQ) = 3 /\ Len(gi_polynomialsQ) = 2
    /\ gi_c[0] = 5 * 13 * 17 - 1
    /\ GIDigitCoeff(1, 0) = -1 /\ GIDigitCoeff(2, 0) = -1

(***************************************************************************)
(* Operations at a level: Context.NTTLvl (ring/ntt.go:11-15) and           *)
(* RingQP.NTTLvl (rlwe/ring_qp.go:71-74), one limb per step.  A Poly is    *)
(* the sequence of its limb arrays; indexing a limb it does not hold is a  *)
(* run-time panic (index out of range).                                    *)
(***************************************************************************)
\* Largest level asked for: one more than the longest chain has limbs.
LvlMaxLevel == 3

LvlChainQ == <<17, 97, 113>>
LvlChainP == <<73, 89>>

\* The tables of the first n moduli of a chain, ring degree 2.
LvlContexts(chain, n) == [x \in 1 .. n |-> NewContext(chain[x], 1)]

\* A polynomial holding n limb arrays of the chain.
LvlPoly(chain, n, seed) ==
    [x \in 1 .. n |-> [k \in 0 .. 1 |-> (seed * (k + 1) + x) % chain[x]]]

LvlZero(n) == [x \in 1 .. n |-> [k \in 0 .. 1 |-> 0]]

\* s[x] of the code (x from 0) is defined when x < len(s).
InRange(s, x) == x < Len(s)

\* The loop that stops at the limbs the operand holds.
NTTLvlLoopOverOperand(level, x, p1) == x < level + 1 /\ x < Len(p1)

\* ntt.go:12: for x := uint64(0); x < level+1; x++
NTTLvlLoop(level, x, p1) == x < level + 1

\* ntt.go:13: NTT(p1.Coeffs[x], p2.Coeffs[x], ..., context.nttPsi[x], ...):
\* the panic of the first index out of range, or p2 with limb x written.
NTTLvlLimb(x, p1, p2, context) ==
    IF InRange(p1, x) /\ InRange(p2, x) /\ InRange(context, x)
    THEN [panic |-> FALSE,
          p2 |-> [p2 EXCEPT ![x + 1] = NTT(p1[x + 1], context[x + 1])]]
    ELSE [panic |-> TRUE, p2 |-> p2]

NTTLvlInit ==
    /\ lvAlone
    /\ lv_x = 0
    /\ lv_pc = "Q"
    /\ \E seed \in {1, 5} :
       \/ /\ lv_op = "Context.NTTLvl"
          /\ \E n \in 2 .. 3 : lv_ctxQ = LvlContexts(LvlChainQ, n)
          /\ lv_ctxP = <<>>
          /\ lv_levelQ \in 0 .. LvlMaxLevel
          /\ lv_levelP = 0
          /\ \E n1 \in 1 .. 3, n2 \in 1 .. 3 :
                /\ lv_p = [Q |-> LvlPoly(LvlChainQ, n1, seed), P |-> <<>>]
                /\ lv_pOut = [Q |-> LvlZero(n2), P |-> <<>>]
       \/ /\ lv_op = "RingQP.NTTLvl"
          /\ lv_ctxQ = LvlContexts(LvlChainQ, 2)
          /\ lv_ctxP = LvlContexts(LvlChainP, 2)
          /\ lv_levelQ \in 0 .. 2
          /\ lv_levelP \in 0 .. 2
          /\ \E n1 \in 1 .. 2, n2 \in 1 .. 2, m1 \in 1 .. 2, m2 \in 1 .. 2 :
                /\ lv_p = [Q |-> LvlPoly(LvlChainQ, n1, seed),
                           P |-> LvlPoly(LvlChainP, m1, seed)]
                /\ lv_pOut = [Q |-> LvlZero(n2), P |-> LvlZero(m2)]

\* ntt.go:12-14 (ring_qp.go:72 for RingQP): one iteration over the limbs of Q.
NTTLvlStepQ ==
    /\ lv_pc = "Q"
    /\ NTTLvlLoop(lv_levelQ, lv_x, lv_p.Q)
    /\ LET r == NTTLvlLimb(lv_x, lv_p.Q, lv_pOut.Q, lv_ctxQ)
       IN  /\ lv_pOut' = [lv_pOut EXCEPT !.Q = r.p2]
           /\ lv_pc' = IF r.panic THEN "Panic" ELSE "Q"
           /\ lv_x' = IF r.panic THEN lv_x ELSE lv_x + 1
    /\ UNCHANGED <<lv_op, lv_ctxQ, lv_ctxP, lv_levelQ, lv_levelP, lv_p>>
    /\ UNCHANGED lvRest

\* ntt.go:15 (ring_qp.go:72-73): the loop over Q ends; Context.NTTLvl
\* returns, RingQP.NTTLvl goes on with RingP.
NTTLvlEndQ ==
    /\ lv_pc = "Q"
    /\ ~NTTLvlLoop(lv_levelQ, lv_x, lv_p.Q)
    /\ lv_pc' = IF lv_op = "RingQP.NTTLvl" THEN "P" ELSE "Done"
    /\ lv_x' = 0
    /\ UNCHANGED <<lv_op, lv_ctxQ, lv_ctxP, lv_levelQ, lv_levelP, lv_p, lv_pOut>>
    /\ UNCHANGED lvRest

\* ring_qp.go:73: r.RingP.NTTLvl(levelP, p.P, pOut.P), one iteration.
NTTLvlStepP ==
    /\ lv_pc = "P"
    /\ NTTLvlLoop(lv_levelP, lv_x, lv_p.P)
    /\ LET r == NTTLvlLimb(lv_x, lv_p.P, lv_pOut.P, lv_ctxP)
       IN  /\ lv_pOut' = [lv_pOut EXCEPT !.P = r.p2]
           /\ lv_pc' = IF r.panic THEN "Panic" ELSE "P"
           /\ lv_x' = IF r.panic THEN lv_x ELSE lv_x + 1
    /\ UNCHANGED <<lv_op, lv_ctxQ, lv_ctxP, lv_levelQ, lv_levelP, lv_p>>
    /\ UNCHANGED lvRest

\* ring_qp.go:74: the loop over P ends and RingQP.NTTLvl returns.
NTTLvlEndP ==
    /\ lv_pc = "P"
    /\ ~NTTLvlLoop(lv_levelP, lv_x, lv_p.P)
    /\ lv_pc' = "Done"
    /\ lv_x' = 0
    /\ UNCHANGED <<lv_op, lv_ctxQ, lv_ctxP, lv_levelQ, lv_levelP, lv_p, lv_pOut>>
    /\ UNCHANGED lvRest

(***************************************************************************)
(* decryptor.Decrypt (ckks, part_010:53-78) on one coefficient per limb:   *)
(* the operations at level are coefficient-wise.                           *)
(***************************************************************************)
\* Largest ciphertext degree explored (7 is the first with i&7 = 7).
DecryptMaxDegree == 7

\* The first limb index in 0 .. level that one of the operands or the
\* context does not hold; level + 1 when they hold them all.
RECURSIVE FirstMissing(_, _, _)
FirstMissing(x, level, operands) ==
    IF x > level THEN level + 1
    ELSE IF \E k \in 1 .. Len(operands) : ~InRange(operands[k], x) THEN x
    ELSE FirstMissing(x + 1, level, operands)

\* An operation "for i := 0; i < level+1; i++ { p3.Coeffs[i] = f(i) }":
\* the limbs before the first missing one are written, then it panics.
AtLevel(level, operands, p3, f(_)) ==
    LET bad == FirstMissing(0, level, Append(operands, p3))
    IN  [panic |-> bad <= level,
         p |-> [x \in 1 .. Len(p3) |-> IF x - 1 < bad THEN f(x) ELSE p3[x]]]

\* Context.CopyLvl(level, p0, p1)
CopyLvl(level, p0, p1, context) ==
    LET f(x) == p0[x]
    IN  AtLevel(level, <<p0, context>>, p1, f)

\* Context.MulCoeffsMontgomeryLvl(level, p1, p2, p3)
MulCoeffsMontgomeryLvl(level, p1, p2, p3, context) ==
    LET f(x) == MRed(p1[x], p2[x], context[x].Modulus, context[x].mredParams)
    IN  AtLevel(level, <<p1, p2, context>>, p3, f)

\* Context.AddLvl(level, p1, p2, p3)
AddLvl(level, p1, p2, p3, context) ==
    LET f(x) == CRed(Wrap(p1[x] + p2[x]), context[x].Modulus)
    IN  AtLevel(level, <<p1, p2, context>>, p3, f)

\* Context.ReduceLvl(level, p1, p2)
ReduceLvl(level, p1, p2, context) ==
    LET f(x) == BRedAdd(p1[x], context[x].Modulus, context[x].bredParams)
    IN  AtLevel(level, <<p1, context>>, p2, f)

\* Ciphertext.Level(): the limbs of value[0], less one.
Level(ct) == Len(ct[1]) - 1

\* Element.Degree() (part_002:71-73)
Degree(ct) == Len(ct) - 1

\* A ciphertext polynomial and a plaintext holding n limbs.
DecryptPoly(n, k, seed) == [x \in 1 .. n |-> (seed * (k + 2) + x) % LvlChainQ[x]]

DecryptInit ==
    /\ dcAlone
    /\ dc_context = LvlContexts(LvlChainQ, 3)
    /\ \E seed \in {1, 7}, s \in {1, 3, 16} :
          /\ \/ \E n0 \in 1 .. 3, n1 \in 1 .. 3 :
                   dc_ct = <<DecryptPoly(n0, 0, seed), DecryptPoly(n1, 1, seed)>>
             \/ \E n0 \in 1 .. 3, n1 \in 1 .. 3, n2 \in 1 .. 3 :
                   dc_ct = <<DecryptPoly(n0, 0, seed), DecryptPoly(n1, 1, seed),
                             DecryptPoly(n2, 2, seed)>>
             \/ \E n \in 1 .. 3 :
                   dc_ct = [k \in 1 .. DecryptMaxDegree + 1 |-> DecryptPoly(n, k - 1, seed)]
          /\ dc_sk = [x \in 1 .. 3 |->
                         MForm(s, LvlChainQ[x], dc_context[x].bredParams)]
    /\ \E n \in 1 .. 3 : dc_pt = [x \in 1 .. n |-> 0]
    /\ dc_in = dc_pt
    /\ dc_level = 0
    /\ dc_i = 0
    /\ dc_pc = "Copy"
    /\ dc_lazy = 0

\* part_010:55-63: level, CopyLvl of the last polynomial of the ciphertext
\* and the plaintext cut to level + 1 limbs.
DecryptCopy ==
    /\ dc_pc = "Copy"
    /\ LET level == Level(dc_ct)
           r     == CopyLvl(level, dc_ct[Degree(dc_ct) + 1], dc_pt, dc_context)
       IN  /\ dc_level' = level
           /\ dc_pt' = IF r.panic THEN r.p ELSE SubSeq(r.p, 1, level + 1)
           /\ dc_pc' = IF r.panic THEN "Panic" ELSE "Loop"
           /\ dc_i' = Degree(dc_ct)
    /\ UNCHANGED <<dc_context, dc_ct, dc_sk, dc_in, dc_lazy>>
    /\ UNCHANGED dcRest

\* part_010:65-73: one iteration of the loop, i from the degree down to 1.
DecryptIteration ==
    /\ dc_pc = "Loop"
    /\ dc_i > 0
    /\ LET mul == MulCoeffsMontgomeryLvl(dc_level, dc_pt, dc_sk, dc_pt, dc_context)
           add == AddLvl(dc_level, mul.p, dc_ct[dc_i], mul.p, dc_context)
           red == ReduceLvl(dc_level, add.p, add.p, dc_context)
       IN  /\ IF mul.panic
              THEN dc_pt' = mul.p /\ dc_pc' = "Panic" /\ dc_i' = dc_i
              ELSE IF add.panic
              THEN dc_pt' = add.p /\ dc_pc' = "Panic" /\ dc_i' = dc_i
              ELSE IF And(dc_i, 7) = 7
              THEN dc_pt' = red.p /\ dc_pc' = "Loop" /\ dc_i' = dc_i - 1
              ELSE dc_pt' = add.p /\ dc_pc' = "Loop" /\ dc_i' = dc_i - 1
           /\ dc_lazy' = IF mul.panic \/ add.panic THEN dc_lazy
                          ELSE IF And(dc_i, 7) = 7 THEN 0 ELSE dc_lazy + 1
    /\ UNCHANGED <<dc_context, dc_ct, dc_sk, dc_in, dc_level>>
    /\ UNCHANGED dcRest

\* part_010:75: the test "(ciphertext.Degree())&7 != 7" after the loop.
DecryptFinalReduces(degree) == And(degree, 7) /= 7

\* part_010:75-77: the ReduceLvl after the loop, run when the degree is not
\* 7 modulo 8.
DecryptFinalReduce ==
    /\ dc_pc = "Loop"
    /\ dc_i = 0
    /\ dc_pt' = IF DecryptFinalReduces(Degree(dc_ct))
                THEN ReduceLvl(dc_level, dc_pt, dc_pt, dc_context).p
                ELSE dc_pt
    /\ dc_lazy' = IF DecryptFinalReduces(Degree(dc_ct)) THEN 0 ELSE dc_lazy
    /\ dc_pc' = "Done"
    /\ UNCHANGED <<dc_context, dc_ct, dc_sk, dc_in, dc_level, dc_i>>
    /\ UNCHANGED dcRest

LvlInit ==
    \/ NTTLvlInit
    \/ DecryptInit

LvlNext ==
    \/ NTTLvlStepQ
    \/ NTTLvlEndQ
    \/ NTTLvlStepP
    \/ NTTLvlEndP
    \/ DecryptCopy
    \/ DecryptIteration
    \/ DecryptFinalReduce

SpecLvl == LvlInit /\ [][LvlNext]_vars

\* The limbs 0 .. level of p2 hold the NTT of those of p1, and p1, p2 and
\* the context all hold them.
NTTLvlWhole(level, p1, p2, context) ==
    /\ level < Len(p1) /\ level < Len(p2) /\ level < Len(context)
    /\ \A x \in 1 .. level + 1 : p2[x] = NTT(p1[x], context[x])

\* The decryption of limb x by Horner's rule, from value[i] down.
RECURSIVE DecryptWant(_, _)
DecryptWant(i, x) ==
    IF i = Degree(dc_ct) THEN dc_ct[i + 1][x]
    ELSE (DecryptWant(i + 1, x) * FromMontgomery(dc_sk[x], dc_context[x].Modulus)
            + dc_ct[i + 1][x]) % dc_context[x].Modulus

(***************************************************************************)
(* C12: an operation asked to work at a level beyond the limb arrays one   *)
(* of its operands holds is rejected (it panics and never returns); an     *)
(* operation that returns has worked on every limb 0 .. level of every     *)
(* operand, none truncated and none left out.                              *)
(***************************************************************************)
C12_BeyondLimbsRejected ==
    /\ lv_pc = "Q" => lv_x <= Len(lv_p.Q) /\ lv_x <= Len(lv_pOut.Q)
    /\ lv_pc \in {"P", "Done"} =>
          NTTLvlWhole(lv_levelQ, lv_p.Q, lv_pOut.Q, lv_ctxQ)
    /\ lv_pc = "P" => lv_x <= Len(lv_p.P) /\ lv_x <= Len(lv_pOut.P)
    /\ (lv_pc = "Done" /\ lv_op = "RingQP.NTTLvl") =>
          NTTLvlWhole(lv_levelP, lv_p.P, lv_pOut.P, lv_ctxP)
    /\ dc_pc = "Done" =>
          /\ dc_level < Len(dc_in)
          /\ \A k \in 1 .. Len(dc_ct) : dc_level < Len(dc_ct[k])
          /\ Len(dc_pt) = dc_level + 1
          /\ \A x \in 1 .. dc_level + 1 : dc_pt[x] = DecryptWant(0, x)

\* NTTLvl at level 3 on polynomials of three limbs: the three limbs are
\* transformed, then the index 3 panics.
C12_Witness ==
    /\ lv_op = "Context.NTTLvl" /\ lv_pc = "Panic"
    /\ lv_levelQ = 3 /\ Len(lv_p.Q) = 3 /\ Len(lv_pOut.Q) = 3 /\ lv_x = 3
    /\ \A x \in 1 .. 3 : lv_pOut.Q[x] = NTT(lv_p.Q[x], lv_ctxQ[x])

\* Decrypt into a plaintext shorter than the ciphertext's level: panic.
C12_WitnessDecrypt ==
    /\ dc_pc = "Panic" /\ Len(dc_in) = 1 /\ dc_level = 2

(***************************************************************************)
(* Rotations (bfv evaluator, dbfv/publickey_gen.go:525-838).  A ciphertext *)
(* is held symbolically: how many times each automorphism X -> X^g of each *)
(* base ciphertext ("in": the operand at the call, "stale": what the       *)
(* receiver held at the call) occurs in the sum it holds.                  *)
(***************************************************************************)
\* Largest ring degree explored: n = 2^RotMaxLogN.
RotMaxLogN == 4

\* bfvcontext.gen: the generator of the column rotations.
GaloisGen == 5

\* The odd residues modulo 2n: the automorphisms of the ring.
GaloisGroup(n) == {g \in 1 .. 2 * n - 1 : g % 2 = 1}

GaloisInv(a, n) == CHOOSE b \in GaloisGroup(n) : (a * b) % (2 * n) = 1

\* bfvcontext.genInv
GaloisGenInv(n) == GaloisInv(GaloisGen, n)

\* bfvcontext.galElRotColLeft[k]
GalElRotColLeft(n, k) == ModExp(GaloisGen, k, 2 * n)

\* bfvcontext.galElRotRow
GalElRotRow(n) == 2 * n - 1

\* The indices 1, 2, 4, ... below n/2 (publickey_gen.go:609).
RECURSIVE Pow2Below(_, _)
Pow2Below(i, bound) == IF i < bound THEN {i} \cup Pow2Below(2 * i, bound) ELSE {}

RECURSIVE hammingWeight64(_)
hammingWeight64(x) == IF x = 0 THEN 0 ELSE (x % 2) + hammingWeight64(x \div 2)

SymTerms(n) == {"in", "stale"} \X GaloisGroup(n)

\* The base ciphertext s itself.
Sym(s, n) == [t \in SymTerms(n) |-> IF t = <<s, 1>> THEN 1 ELSE 0]

\* ring.Permute / ring.PermuteNTT with Galois element a, on every term.
Permute(c, a, n) ==
    [t \in SymTerms(n) |-> c[<<t[1], (t[2] * GaloisInv(a, n)) % (2 * n)>>]]

\* evaluator.Add(a, b, .)
SymAdd(a, b) == [t \in DOMAIN a |-> a[t] + b[t]]

\* The loop of rotateColumnsPow2 without "generator *= generator".
RECURSIVE rotateColumnsPow2LoopNoSquare(_, _, _, _, _, _, _, _)
rotateColumnsPow2LoopNoSquare(n, degree, k, generator, evakey_index, side, gal, keys) ==
    IF k = 0 THEN [gal |-> gal, keys |-> keys]
    ELSE rotateColumnsPow2LoopNoSquare(n, degree, ShiftRight(k, 1),
             generator,
             2 * evakey_index, side,
             IF And(k, 1) = 1 THEN (gal * generator) % (2 * n) ELSE gal,
             IF And(k, 1) = 1 /\ degree /= 0
             THEN Append(keys, [side |-> side, index |-> evakey_index, gal |-> generator])
             ELSE keys)

\* publickey_gen.go:664-692: the loop of rotateColumnsPow2; gal is the
\* product of the Galois elements applied, keys the switching keys used.
RECURSIVE rotateColumnsPow2Loop(_, _, _, _, _, _, _, _)
rotateColumnsPow2Loop(n, degree, k, generator, evakey_index, side, gal, keys) ==
    IF k = 0 THEN [gal |-> gal, keys |-> keys]
    ELSE rotateColumnsPow2Loop(n, degree, ShiftRight(k, 1),
             And(Wrap(generator * generator), 2 * n - 1),
             2 * evakey_index, side,
             IF And(k, 1) = 1 THEN (gal * generator) % (2 * n) ELSE gal,
             IF And(k, 1) = 1 /\ degree /= 0
             THEN Append(keys, [side |-> side, index |-> evakey_index, gal |-> generator])
             ELSE keys)

\* The fallback that is taken whichever power-of-two keys exist.
HasPow2RotationsAlways(n, keysL, keysR) == TRUE

\* publickey_gen.go:608-614: has_pow2_rotations
HasPow2Rotations(n, keysL, keysR) ==
    \A i \in Pow2Below(1, n \div 2) : i \in keysL /\ i \in keysR

\* Evaluator.RotateColumns(c0, k, evakey, c1) (publickey_gen.go:526-633):
\* the error returned ("nil" for none), the receiver at return and the
\* switching keys the key switches were run with.
RotateColumns(n, kIn, c0, deg0, c1, deg1, keysL, keysR) ==
    LET k == And(kIn, n \div 2 - 1)
        none == [err |-> "nil", c1 |-> c1, keys |-> <<>>]
    IN  IF k = 0 THEN [none EXCEPT !.c1 = c0]
        ELSE IF deg1 /= deg0
        THEN [none EXCEPT !.err = "cannot rotate -> receiver degree doesn't match input degree "]
        ELSE IF deg0 > 1
        THEN [none EXCEPT !.err = "cannot rotate -> input and or output degree not 0 or 1"]
        ELSE IF deg0 = 0
        THEN [none EXCEPT !.c1 = Permute(c0, GalElRotColLeft(n, k), n)]
        ELSE IF k \in keysL
        THEN [err |-> "nil",
              c1 |-> Permute(c0, GalElRotColLeft(n, k), n),
              keys |-> <<[side |-> "L", index |-> k, gal |-> GalElRotColLeft(n, k)]>>]
        ELSE IF HasPow2Rotations(n, keysL, keysR)
        THEN LET left == hammingWeight64(k) <= hammingWeight64(n \div 2 - k)
                 r == IF left
                      THEN rotateColumnsPow2Loop(n, deg0, k, GaloisGen, 1, "L", 1, <<>>)
                      ELSE rotateColumnsPow2Loop(n, deg0, n \div 2 - k, GaloisGenInv(n),
                                                 1, "R", 1, <<>>)
             IN  [err |-> "nil", c1 |-> Permute(c0, r.gal, n), keys |-> r.keys]
        ELSE [none EXCEPT !.err = "error : specific rotation and pow2 rotations have not been generated"]

\* Evaluator.RotateRows(c0, evakey, c1) (publickey_gen.go:702-805)
RotateRows(n, c0, deg0, c1, deg1, rowKey) ==
    LET none == [err |-> "nil", c1 |-> c1, keys |-> <<>>]
    IN  IF deg1 /= deg0
        THEN [none EXCEPT !.err = "cannot rotate -> receiver degree doesn't match input degree "]
        ELSE IF deg0 > 1
        THEN [none EXCEPT !.err = "cannot rotate -> input and or output degree not 0 or 1"]
        ELSE IF ~rowKey
        THEN [none EXCEPT !.err = "error : rows rotation key not generated"]
        ELSE [err |-> "nil",
              c1 |-> Permute(c0, GalElRotRow(n), n),
              keys |-> IF deg0 = 0 THEN <<>>
                       ELSE <<[side |-> "row", index |-> 0, gal |-> GalElRotRow(n)]>>]

\* The column keys explored: the powers of two below n/2 and k = 3.
RotKeysL(n) == SUBSET (Pow2Below(1, n \div 2) \cup {3})

RotKeysR(n) ==
    {{}, Pow2Below(1, n \div 2), Pow2Below(1, n \div 2) \ {1}}

RotInit ==
    /\ rotAlone
    /\ \E logN \in 3 .. RotMaxLogN : rot_n = Pow(2, logN)
    /\ rot_keysL \in RotKeysL(rot_n)
    /\ rot_keysR \in RotKeysR(rot_n)
    /\ rot_rowKey \in BOOLEAN
    /\ rot_same \in BOOLEAN
    /\ rot_deg0 \in 0 .. 2
    /\ rot_deg1 \in 0 .. 2
    /\ rot_same => rot_deg1 = rot_deg0
    /\ \/ rot_op = "RotateColumns" /\ rot_k \in 0 .. rot_n
       \/ rot_op = "RotateRows" /\ rot_k = 0
       \/ rot_op = "InnerSum" /\ rot_k = 0
    /\ rot_c0 = Sym("in", rot_n)
    /\ rot_c1 = IF rot_same THEN Sym("in", rot_n) ELSE Sym("stale", rot_n)
    /\ rot_cTmp = <<>>
    /\ rot_i = 0
    /\ rot_pc = "Call"
    /\ rot_err = "nil"
    /\ rot_keys = <<>>

\* A call of RotateColumns or RotateRows returns r.
RotReturn(r) ==
    /\ rot_c1' = r.c1
    /\ rot_c0' = IF rot_same THEN r.c1 ELSE rot_c0
    /\ rot_err' = r.err
    /\ rot_keys' = r.keys
    /\ rot_pc' = "Done"
    /\ UNCHANGED <<rot_op, rot_n, rot_k, rot_deg0, rot_deg1, rot_same,
                   rot_keysL, rot_keysR, rot_rowKey, rot_cTmp, rot_i>>
    /\ UNCHANGED rotRest

\* publickey_gen.go:526-633
CallRotateColumns ==
    /\ rot_op = "RotateColumns" /\ rot_pc = "Call"
    /\ RotReturn(RotateColumns(rot_n, rot_k, rot_c0, rot_deg0, rot_c1, rot_deg1,
                               rot_keysL, rot_keysR))

\* publickey_gen.go:702-805
CallRotateRows ==
    /\ rot_op = "RotateRows" /\ rot_pc = "Call"
    /\ RotReturn(RotateRows(rot_n, rot_c0, rot_deg0, rot_c1, rot_deg1, rot_rowKey))

\* publickey_gen.go:808-822: the degree checks, cTmp, and c1.Copy(c0), which
\* copies the receiver of Copy onto its argument as c0.Copy(c1) does at 532.
InnerSumEntry ==
    /\ rot_op = "InnerSum" /\ rot_pc = "Call"
    /\ IF rot_deg0 /= 1
       THEN /\ rot_err' = "error : ciphertext must be of degree 1 to allow Galois Auotomorphism (required for inner sum)"
            /\ rot_pc' = "Done"
            /\ UNCHANGED <<rot_c0, rot_cTmp, rot_i>>
       ELSE IF rot_deg1 /= 1
       THEN /\ rot_err' = "error : receiver ciphertext must be of degree 1 to allow Galois Automorphism (required for inner sum)"
            /\ rot_pc' = "Done"
            /\ UNCHANGED <<rot_c0, rot_cTmp, rot_i>>
       ELSE /\ rot_err' = "nil"
            /\ rot_pc' = "Loop"
            /\ rot_cTmp' = [t \in SymTerms(rot_n) |-> 0]
            /\ rot_c0' = rot_c1
            /\ rot_i' = 1
    /\ UNCHANGED <<rot_op, rot_n, rot_k, rot_deg0, rot_deg1, rot_same,
                   rot_keysL, rot_keysR, rot_rowKey, rot_c1, rot_keys>>
    /\ UNCHANGED rotRest

\* publickey_gen.go:824-829: one iteration, RotateColumns by i then Add.
InnerSumIteration ==
    /\ rot_op = "InnerSum" /\ rot_pc = "Loop"
    /\ rot_i < rot_n \div 2
    /\ LET r == RotateColumns(rot_n, rot_i, rot_c1, 1, rot_cTmp, 1, rot_keysL, rot_keysR)
       IN  IF r.err /= "nil"
           THEN /\ rot_err' = r.err
                /\ rot_pc' = "Done"
                /\ UNCHANGED <<rot_c0, rot_c1, rot_cTmp, rot_i, rot_keys>>
           ELSE /\ rot_cTmp' = r.c1
                /\ rot_c1' = SymAdd(r.c1, rot_c1)
                /\ rot_c0' = IF rot_same THEN SymAdd(r.c1, rot_c1) ELSE rot_c0
                /\ rot_keys' = rot_keys \o r.keys
                /\ rot_i' = 2 * rot_i
                /\ UNCHANGED <<rot_err, rot_pc>>
    /\ UNCHANGED <<rot_op, rot_n, rot_k, rot_deg0, rot_deg1, rot_same,
                   rot_keysL, rot_keysR, rot_rowKey>>
    /\ UNCHANGED rotRest

\* publickey_gen.go:831-836: RotateRows then Add, after the loop.
InnerSumRows ==
    /\ rot_op = "InnerSum" /\ rot_pc = "Loop"
    /\ ~(rot_i < rot_n \div 2)
    /\ LET r == RotateRows(rot_n, rot_c1, 1, rot_cTmp, 1, rot_rowKey)
       IN  IF r.err /= "nil"
           THEN /\ rot_err' = r.err
                /\ UNCHANGED <<rot_c0, rot_c1, rot_cTmp, rot_keys>>
           ELSE /\ rot_cTmp' = r.c1
                /\ rot_c1' = SymAdd(rot_c1, r.c1)
                /\ rot_c0' = IF rot_same THEN SymAdd(rot_c1, r.c1) ELSE rot_c0
                /\ rot_keys' = rot_keys \o r.keys
                /\ UNCHANGED rot_err
    /\ rot_pc' = "Done"
    /\ UNCHANGED <<rot_op, rot_n, rot_k, rot_deg0, rot_deg1, rot_same,
                   rot_keysL, rot_keysR, rot_rowKey, rot_i>>
    /\ UNCHANGED rotRest

RotNext ==
    \/ CallRotateColumns
    \/ CallRotateRows
    \/ InnerSumEntry
    \/ InnerSumIteration
    \/ InnerSumRows

SpecRot == RotInit /\ [][RotNext]_vars

\* Whether a switching key was generated, and the automorphism it is for.
KeyGenerated(key) ==
    IF key.side = "L" THEN key.index \in rot_keysL
    ELSE IF key.side = "R" THEN key.index \in rot_keysR
    ELSE rot_rowKey

KeyGal(key) ==
    IF key.side = "L" THEN GalElRotColLeft(rot_n, key.index)
    ELSE IF key.side = "R" THEN ModExp(GaloisGenInv(rot_n), key.index, 2 * rot_n)
    ELSE GalElRotRow(rot_n)

\* The rotation amount after "k &= (n>>1) - 1" (publickey_gen.go:528).
RotK == And(rot_k, rot_n \div 2 - 1)

\* What the receiver held at the call.
RotStale == IF rot_same THEN Sym("in", rot_n) ELSE Sym("stale", rot_n)

RotRejected == rot_err /= "nil" /\ rot_keys = <<>> /\ rot_c1 = RotStale

(***************************************************************************)
(* C13 as stated: a rotation whose key was not generated returns an error  *)
(* and runs no key switch, for every k, for the row rotation and for every *)
(* degree of the operand.                                                  *)
(***************************************************************************)
C13_Original ==
    /\ (rot_op = "RotateColumns" /\ rot_pc = "Done" /\ RotK \notin rot_keysL)
          => RotRejected
    /\ (rot_op = "RotateRows" /\ rot_pc = "Done" /\ ~rot_rowKey)
          => RotRejected

(***************************************************************************)
(* C13, amended: every key switch of a rotation is run with a key that was *)
(* generated, and generated for the automorphism just applied.  A column   *)
(* rotation of a degree-1 operand by k (k mod n/2 /= 0) returns an error,  *)
(* with no key switch run and the receiver as it was, when neither the key *)
(* of k nor all the power-of-two keys, left and right, were generated;     *)
(* with those it is carried out as a composition of power-of-two           *)
(* rotations.  A row rotation without the row key returns an error         *)
(* whatever the degree.  A rotation that returns no error has applied the  *)
(* automorphism asked for.                                                 *)
(***************************************************************************)
C13_NoSubstituteKey ==
    (rot_op \in {"RotateColumns", "RotateRows"} /\ rot_pc = "Done") =>
        /\ \A x \in 1 .. Len(rot_keys) :
              KeyGenerated(rot_keys[x]) /\ rot_keys[x].gal = KeyGal(rot_keys[x])
        /\ ( /\ rot_op = "RotateColumns" /\ rot_deg0 = 1 /\ rot_deg1 = 1
             /\ RotK /= 0 /\ RotK \notin rot_keysL
             /\ \E i \in Pow2Below(1, rot_n \div 2) :
                   i \notin rot_keysL \/ i \notin rot_keysR )
              => RotRejected
        /\ (rot_op = "RotateRows" /\ ~rot_rowKey) => RotRejected
        /\ (rot_op = "RotateColumns" /\ rot_err = "nil") =>
              /\ rot_c1 = Permute(Sym("in", rot_n), GalElRotColLeft(rot_n, RotK), rot_n)
              /\ (rot_deg0 = 1 /\ RotK /= 0) => rot_keys /= <<>>
        /\ (rot_op = "RotateRows" /\ rot_err = "nil") =>
              rot_c1 = Permute(Sym("in", rot_n), GalElRotRow(rot_n), rot_n)

\* RotateColumns by 3 with only the keys of 1 and 4: an error.
C13_Witness ==
    /\ rot_op = "RotateColumns" /\ rot_pc = "Done" /\ rot_n = 16 /\ rot_k = 11
    /\ rot_deg0 = 1 /\ rot_keysL = {1, 4} /\ rot_keysR = {1, 2, 4}
    /\ rot_err = "error : specific rotation and pow2 rotations have not been generated"
    /\ RotRejected

\* RotateColumns by 3 without the key of 3, carried out with the keys of 1
\* and 2.
C13_WitnessPow2 ==
    /\ rot_op = "RotateColumns" /\ rot_pc = "Done" /\ rot_n = 16 /\ rot_k = 3
    /\ rot_deg0 = 1 /\ rot_keysL = {1, 2, 4} /\ rot_keysR = {1, 2, 4}
    /\ rot_err = "nil" /\ Len(rot_keys) = 2

(***************************************************************************)
(* C15: when a rotation fails inside InnerSum, InnerSum returns the error  *)
(* and the output ciphertext holds no partial result: it is as it was at   *)
(* the call.                                                               *)
(***************************************************************************)
C15_NoPartialOutput ==
    (rot_op = "InnerSum" /\ rot_pc = "Done" /\ rot_err /= "nil")
        => rot_c1 = RotStale

(***************************************************************************)
(* evaluator.MultiplyByDiagMatrix (ckks/linear_transform.go:377-471 and    *)
(* 1062-1176): the loop over the diagonals and its exits.  The function    *)
(* has no error result: it returns, or it panics.                          *)
(***************************************************************************)
\* Largest diagonal index explored.
DiagMaxIndex == 3

\* ringQ.N of the run: the diagonals are taken modulo N/2.
DiagN == 16

DiagInit ==
    /\ mdAlone
    /\ md_diags \in SUBSET (0 .. DiagMaxIndex) \ {{}}
    /\ md_keys \in SUBSET (1 .. DiagMaxIndex)
    /\ md_todo = md_diags
    /\ md_state = FALSE
    /\ md_cnt = 0
    /\ md_acc = {}
    /\ md_pc = "Loop"

\* linear_transform.go:406-447 (1101-1153): one iteration of
\* "for k := range matrix.Vec", in the order the map yields.
DiagIteration ==
    /\ md_pc = "Loop"
    /\ \E key \in md_todo :
          LET k == And(key, DiagN \div 2 - 1)
          IN  /\ md_todo' = md_todo \ {key}
              /\ IF k = 0
                 THEN md_state' = TRUE /\ UNCHANGED <<md_cnt, md_acc, md_pc>>
                 ELSE IF k \notin md_keys
                 THEN md_pc' = "Panic" /\ UNCHANGED <<md_state, md_cnt, md_acc>>
                 ELSE /\ md_acc' = md_acc \cup {k}
                      /\ md_cnt' = md_cnt + 1
                      /\ UNCHANGED <<md_state, md_pc>>
    /\ UNCHANGED <<md_diags, md_keys>>
    /\ UNCHANGED mdRest

\* linear_transform.go:449-470 (1155-1175): the reductions, the ModDown,
\* the diagonal k = 0 and the return.
DiagReturn ==
    /\ md_pc = "Loop"
    /\ md_todo = {}
    /\ md_acc' = IF md_state THEN md_acc \cup {0} ELSE md_acc
    /\ md_pc' = "Return"
    /\ UNCHANGED <<md_diags, md_keys, md_todo, md_state, md_cnt>>
    /\ UNCHANGED mdRest

DiagNext ==
    \/ DiagIteration
    \/ DiagReturn

SpecDiag == DiagInit /\ [][DiagNext]_vars

(***************************************************************************)
(* C14: a MultiplyByDiagMatrix that needs a rotation key that was never    *)
(* generated ends by delivering an error to its caller; it does not abort  *)
(* with a panic.                                                           *)
(***************************************************************************)
DiagMissingKey == \E k \in md_diags \ {0} : k \notin md_keys

C14_MissingKeyIsError ==
    (DiagMissingKey /\ md_pc \notin {"idle", "Loop"}) => md_pc = "Error"

(***************************************************************************)
(* Bootstrapper.Bootstrap and Bootstrapper.BootstrapMany                   *)
(* (circuits/float/bootstrapper/bootstrapper.go:202-266).  The fallible    *)
(* calls (refreshConjugateInvariant, PackAndSwitchN1ToN2, the inner        *)
(* Bootstrap, UnpackAndSwitchN2Tn1) succeed or return an error.            *)
(***************************************************************************)
\* Largest number of ciphertexts handed to BootstrapMany.
BootMaxCts == 4

\* bootstrapper.go:203: cts := []*rlwe.Ciphertext{ct}, or the caller's slice.
BootInit ==
    /\ bsAlone
    /\ bs_caller \in {"Bootstrap", "BootstrapMany"}
    /\ bs_ring \in {"Standard", "ConjugateInvariant"}
    /\ bs_nb \in 1 .. BootMaxCts
    /\ bs_caller = "Bootstrap" => bs_nb = 1
    /\ bs_cts = [k \in 1 .. bs_nb |-> "in"]
    /\ bs_nil = FALSE
    /\ bs_i = 0
    /\ bs_err = "nil"
    /\ bs_pc = IF bs_ring = "ConjugateInvariant" THEN "Refresh" ELSE "Pack"

\* return nil, fmt.Errorf("cannot BootstrapMany: %w", err)
BootManyFails ==
    /\ bs_cts' = <<>>
    /\ bs_nil' = TRUE
    /\ bs_err' = "err"
    /\ bs_pc' = "ManyReturned"
    /\ UNCHANGED <<bs_caller, bs_ring, bs_nb, bs_i>>

\* bootstrapper.go:215-233: one iteration over the pair (i, i+1).
BootRefreshPair ==
    /\ bs_pc = "Refresh"
    /\ bs_i < Len(bs_cts)
    /\ \/ BootManyFails
       \/ /\ bs_cts' = [k \in 1 .. Len(bs_cts) |->
                           IF k - 1 \in {bs_i, bs_i + 1} THEN "fresh"
                           ELSE bs_cts[k]]
          /\ bs_i' = bs_i + 2
          /\ UNCHANGED <<bs_caller, bs_ring, bs_nb, bs_nil, bs_err, bs_pc>>
    /\ UNCHANGED bsRest

\* bootstrapper.go:215: the loop over the pairs ends.
BootRefreshEnd ==
    /\ bs_pc = "Refresh"
    /\ bs_i >= Len(bs_cts)
    /\ bs_pc' = "Scale"
    /\ UNCHANGED <<bs_caller, bs_ring, bs_nb, bs_cts, bs_nil, bs_i, bs_err>>
    /\ UNCHANGED bsRest

\* bootstrapper.go:238-243: PackAndSwitchN1ToN2 returns an error or the
\* packed ciphertexts (at least one, at most as many as it was given).
BootPack ==
    /\ bs_pc = "Pack"
    /\ \/ BootManyFails
       \/ \E packed \in 1 .. Len(bs_cts) :
             /\ bs_cts' = [k \in 1 .. packed |-> "packed"]
             /\ bs_i' = 0
             /\ bs_pc' = "Loop"
             /\ UNCHANGED <<bs_caller, bs_ring, bs_nb, bs_nil, bs_err>>
    /\ UNCHANGED bsRest

\* bootstrapper.go:245-251: for i := range cts, the inner Bootstrap.
BootInner ==
    /\ bs_pc = "Loop"
    /\ bs_i < Len(bs_cts)
    /\ \/ BootManyFails
       \/ /\ bs_cts' = [bs_cts EXCEPT ![bs_i + 1] = "fresh"]
          /\ bs_i' = bs_i + 1
          /\ UNCHANGED <<bs_caller, bs_ring, bs_nb, bs_nil, bs_err, bs_pc>>
    /\ UNCHANGED bsRest

\* bootstrapper.go:253-255: UnpackAndSwitchN2Tn1 returns an error or the
\* nbCiphertexts unpacked ciphertexts.
BootUnpack ==
    /\ bs_pc = "Loop"
    /\ bs_i >= Len(bs_cts)
    /\ \/ BootManyFails
       \/ /\ bs_cts' = [k \in 1 .. bs_nb |-> "fresh"]
          /\ bs_pc' = "Scale"
          /\ UNCHANGED <<bs_caller, bs_ring, bs_nb, bs_nil, bs_i, bs_err>>
    /\ UNCHANGED bsRest

\* bootstrapper.go:258-264: runtime.GC(), the scales, return cts, err.
BootManyReturn ==
    /\ bs_pc = "Scale"
    /\ bs_pc' = "ManyReturned"
    /\ UNCHANGED <<bs_caller, bs_ring, bs_nb, bs_cts, bs_nil, bs_i, bs_err>>
    /\ UNCHANGED bsRest

\* Go's index expression cts[0]: a run-time panic when the slice is empty.
BootIndexPanics(cts, index) == index >= Len(cts)

\* bootstrapper.go:204-205: cts, err := b.BootstrapMany(cts);
\* return cts[0], err.  A direct call of BootstrapMany hands (cts, err) to
\* its caller.
BootstrapReturn ==
    /\ bs_pc = "ManyReturned"
    /\ bs_pc' = IF bs_caller = "Bootstrap" /\ BootIndexPanics(bs_cts, 0)
                THEN "Panic" ELSE "Return"
    /\ UNCHANGED <<bs_caller, bs_ring, bs_nb, bs_cts, bs_nil, bs_i, bs_err>>
    /\ UNCHANGED bsRest

BootNext ==
    \/ BootRefreshPair
    \/ BootRefreshEnd
    \/ BootPack
    \/ BootInner
    \/ BootUnpack
    \/ BootManyReturn
    \/ BootstrapReturn

SpecBoot == BootInit /\ [][BootNext]_vars

(***************************************************************************)
(* C16: whenever BootstrapMany fails for the ciphertext given to           *)
(* Bootstrap, Bootstrap ends by returning that error to its caller as an   *)
(* ordinary return value.                                                  *)
(***************************************************************************)
C16_BootstrapReturnsError ==
    (/\ bs_caller = "Bootstrap"
     /\ bs_err = "err"
     /\ bs_pc \notin {"ManyReturned"})
        => bs_pc = "Return"

(***************************************************************************)
(* CKKSPolyEvaluator.Polynomial (circuits/poly_eval_ckks.go:48-122) and    *)
(* checkEnoughLevels (384-394).  GenPower and the Paterson-Stockmeyer      *)
(* evaluation succeed or return an error.                                  *)
(***************************************************************************)
\* Largest level of an input ciphertext.
PolyMaxLevel == 4

\* Largest degree of an evaluated polynomial.
PolyMaxDegree == 7

\* Largest number of levels one rescaling consumes.
PolyMaxLcpr == 2

\* Polynomial.Depth(): bits.Len64 of the degree.
PolyDepth(degree) == Len64(degree)

\* bignum.OptimalSplit(logDegree).
OptimalSplit(logDegree) ==
    LET logSplit == logDegree \div 2
        a == Pow(2, logSplit) + Pow(2, logDegree - logSplit)
             + logDegree - logSplit - 3
        b == Pow(2, logSplit + 1) + Pow(2, logDegree - logSplit - 1)
             + logDegree - logSplit - 4
    IN  IF a > b THEN logSplit + 1 ELSE logSplit

\* The powers GenPower(n) leaves in the power basis: X^n and, recursively,
\* the two powers it is the product of.
RECURSIVE GenPowerSet(_)
GenPowerSet(n) ==
    IF n <= 1 THEN {1}
    ELSE LET a == IF And(n, n - 1) = 0 THEN n \div 2
                  ELSE Pow(2, Len64(n - 1) - 1) - 1
             b == n - a
         IN  {n} \cup GenPowerSet(a) \cup GenPowerSet(b)

\* poly_eval_ckks.go:387-391, with the off-by-one comparison.
checkEnoughLevelsOffByOne(levels, depth) ==
    IF levels + 1 < depth THEN "err" ELSE "nil"

\* poly_eval_ckks.go:384-394.
checkEnoughLevels(levels, depth) ==
    IF levels < depth THEN "err" ELSE "nil"

PolyInit ==
    /\ peAlone
    /\ pe_input \in {"Ciphertext", "PowerBasis", "EmptyPowerBasis", "Invalid"}
    /\ pe_p \in {"bignum.Polynomial", "Polynomial", "PolynomialVector",
                 "Invalid"}
    /\ pe_level \in 0 .. PolyMaxLevel
    /\ pe_degree \in 1 .. PolyMaxDegree
    /\ pe_lcpr \in 1 .. PolyMaxLcpr
    /\ pe_odd \in BOOLEAN
    /\ pe_even \in BOOLEAN
    /\ pe_given \in {{1}, {1, 2}}
    /\ pe_input /= "PowerBasis" => pe_given = {1}
    /\ pe_powers = pe_given
    /\ pe_i = 0
    /\ pe_err = "nil"
    /\ pe_out = "nil"
    /\ pe_pc = "Check"

\* return nil, err
PolyFails ==
    /\ pe_err' = "err"
    /\ pe_out' = "nil"
    /\ pe_pc' = "Return"

\* poly_eval_ckks.go:50-87: the two type switches and checkEnoughLevels.
PolyCheck ==
    /\ pe_pc = "Check"
    /\ IF \/ pe_p = "Invalid"
          \/ pe_input \in {"EmptyPowerBasis", "Invalid"}
          \/ checkEnoughLevels(pe_level, pe_lcpr * PolyDepth(pe_degree))
                = "err"
       THEN PolyFails
       ELSE pe_pc' = "GenPowersOfTwo" /\ UNCHANGED <<pe_err, pe_out>>
    /\ UNCHANGED <<pe_input, pe_p, pe_level, pe_degree, pe_lcpr, pe_odd,
                   pe_even, pe_given, pe_powers, pe_i>>
    /\ UNCHANGED peRest

\* poly_eval_ckks.go:89-99: GenPower(1 << (logDegree - 1)).
PolyGenPowersOfTwo ==
    /\ pe_pc = "GenPowersOfTwo"
    /\ LET logDegree == Len64(pe_degree)
           logSplit == OptimalSplit(logDegree)
       IN  \/ PolyFails /\ UNCHANGED <<pe_powers, pe_i>>
           \/ /\ pe_powers' =
                    pe_powers \cup GenPowerSet(Pow(2, logDegree - 1))
              /\ pe_i' = Pow(2, logSplit) - 1
              /\ pe_pc' = "GenIntermediate"
              /\ UNCHANGED <<pe_err, pe_out>>
    /\ UNCHANGED <<pe_input, pe_p, pe_level, pe_degree, pe_lcpr, pe_odd,
                   pe_even, pe_given>>
    /\ UNCHANGED peRest

\* poly_eval_ckks.go:102-108: one iteration of the loop over i.
PolyGenIntermediate ==
    /\ pe_pc = "GenIntermediate"
    /\ pe_i > 2
    /\ IF \/ ~(pe_even \/ pe_odd)
          \/ (pe_i % 2 = 0 /\ pe_even)
          \/ (pe_i % 2 = 1 /\ pe_odd)
       THEN \/ PolyFails /\ UNCHANGED <<pe_powers, pe_i>>
            \/ /\ pe_powers' = pe_powers \cup GenPowerSet(pe_i)
               /\ pe_i' = pe_i - 1
               /\ UNCHANGED <<pe_err, pe_out, pe_pc>>
       ELSE /\ pe_i' = pe_i - 1
            /\ UNCHANGED <<pe_powers, pe_err, pe_out, pe_pc>>
    /\ UNCHANGED <<pe_input, pe_p, pe_level, pe_degree, pe_lcpr, pe_odd,
                   pe_even, pe_given>>
    /\ UNCHANGED peRest

\* poly_eval_ckks.go:110-121: the Paterson-Stockmeyer evaluation and the
\* return.
PolyEvaluate ==
    /\ pe_pc = "GenIntermediate"
    /\ pe_i <= 2
    /\ \/ PolyFails
       \/ pe_out' = "ct" /\ pe_pc' = "Return" /\ UNCHANGED pe_err
    /\ UNCHANGED <<pe_input, pe_p, pe_level, pe_degree, pe_lcpr, pe_odd,
                   pe_even, pe_given, pe_powers, pe_i>>
    /\ UNCHANGED peRest

PolyNext ==
    \/ PolyCheck
    \/ PolyGenPowersOfTwo
    \/ PolyGenIntermediate
    \/ PolyEvaluate

SpecPoly == PolyInit /\ [][PolyNext]_vars

\* The input has too few levels for the polynomial.
PolyTooFewLevels == pe_level < pe_lcpr * PolyDepth(pe_degree)

(***************************************************************************)
(* C17: when the level of the input is smaller than                        *)
(* levelsConsummedPerRescaling times the depth of the polynomial,          *)
(* Polynomial returns an error and no ciphertext, and no power of the      *)
(* input has been computed: the power basis holds what the caller gave.    *)
(***************************************************************************)
C17_NotEnoughLevelsRejected ==
    PolyTooFewLevels =>
        /\ pe_powers = pe_given
        /\ pe_pc \in {"Check", "Return"}
        /\ pe_pc = "Return" => pe_err = "err" /\ pe_out = "nil"

C17_Witness ==
    /\ PolyTooFewLevels
    /\ pe_input = "Ciphertext"
    /\ pe_p = "Polynomial"
    /\ pe_level = pe_lcpr * PolyDepth(pe_degree) - 1
    /\ pe_pc = "Return"
    /\ pe_err = "err"

(***************************************************************************)
(* Encryptors (rlwe encryptor: unnamed/part_005:288-392 and 715-755; bfv   *)
(* wrapper: unnamed/part_004:59-70).  An Encryptor is a record of heap     *)
(* addresses: the mutable parts (temporary buffers, samplers with their    *)
(* PRNG, basis extender, uniform sampler) and the read-only parts          *)
(* (parameters, key).  The bfv wrapper only forwards to the rlwe object.   *)
(***************************************************************************)
\* Largest number of Encryptors alive.
EncMaxEncryptors == 3

EncKeys == {"k1", "k2"}

\* part_005:377-392: freshly allocated polynomials.
newEncryptorBuffersReused(next) == 1

newEncryptorBuffers(next) == next

\* part_005:328-348: a fresh encryptor struct with fresh PRNG and samplers,
\* fresh buffers and a fresh basis extender.
newEncryptor(next) ==
    [core |-> next,
     buffers |-> newEncryptorBuffers(next + 1),
     samplers |-> next + 2,
     basisextender |-> next + 3]

\* Number of heap addresses one NewEncryptor call takes.
EncFootprint == 5

\* part_005:308-318, 350-367: NewEncryptor(params, key), by the key's type.
NewEncryptor(next, kind, key, via, parent) ==
    LET e == newEncryptor(next)
    IN  [kind |-> kind, key |-> key, params |-> "params",
         core |-> e.core, buffers |-> e.buffers, samplers |-> e.samplers,
         basisextender |-> e.basisextender,
         uniformSampler |-> IF kind = "sk" THEN next + 4 ELSE 0,
         via |-> via, parent |-> parent]

\* part_005:729-755: pkEncryptor.WithKey keeps the pointer to the receiver's
\* encryptor struct; skEncryptor.WithKey copies the struct (its fields are
\* the same pointers) and the uniform sampler.
WithKey(next, enc, key, parent) ==
    [kind |-> enc.kind, key |-> key, params |-> enc.params,
     core |-> IF enc.kind = "pk" THEN enc.core ELSE next,
     buffers |-> enc.buffers, samplers |-> enc.samplers,
     basisextender |-> enc.basisextender,
     uniformSampler |-> enc.uniformSampler,
     via |-> "WithKey", parent |-> parent]

\* The heap addresses an Encrypt call of enc writes: part_005:429-470
\* (public key), 481-530 and 598-610 (secret key).
EncWritten(enc) ==
    {enc.buffers, enc.samplers}
       \cup (IF enc.kind = "pk" THEN {enc.basisextender}
             ELSE {enc.uniformSampler})

\* Every mutable heap address enc points to.
EncMutable(enc) ==
    {enc.buffers, enc.samplers, enc.basisextender}
       \cup (IF enc.uniformSampler = 0 THEN {} ELSE {enc.uniformSampler})

EncHeap == 1 .. EncMaxEncryptors * EncFootprint

EncInit ==
    /\ enAlone
    /\ \E kind \in {"pk", "sk"} :
          en_encs = <<NewEncryptor(1, kind, "k1", "NewEncryptor", 0)>>
    /\ en_next = 1 + EncFootprint
    /\ en_mem = [a \in EncHeap |-> 0]
    /\ en_busy = {}
    /\ en_torn = {}

\* part_005:718-727 (part_004:62-64): NewEncryptor(enc.params, enc.pk) or
\* NewEncryptor(enc.params, enc.sk).
EncShallowCopy ==
    /\ en_encs /= <<>>
    /\ Len(en_encs) < EncMaxEncryptors
    /\ \E r \in 1 .. Len(en_encs) :
          en_encs' = Append(en_encs,
                        NewEncryptor(en_next, en_encs[r].kind, en_encs[r].key,
                                     "ShallowCopy", r))
    /\ en_next' = en_next + EncFootprint
    /\ UNCHANGED <<en_mem, en_busy, en_torn>>
    /\ UNCHANGED enRest

\* part_005:729-755 (part_004:68-70).
EncWithKey ==
    /\ en_encs /= <<>>
    /\ Len(en_encs) < EncMaxEncryptors
    /\ \E r \in 1 .. Len(en_encs), key \in EncKeys :
          en_encs' = Append(en_encs, WithKey(en_next, en_encs[r], key, r))
    /\ en_next' = en_next + EncFootprint
    /\ UNCHANGED <<en_mem, en_busy, en_torn>>
    /\ UNCHANGED enRest

\* An Encrypt call of Encryptor e starts: it samples and fills its
\* temporary buffers.
EncEncryptBegin ==
    /\ \E e \in (1 .. Len(en_encs)) \ en_busy :
          /\ en_mem' = [a \in EncHeap |->
                           IF a \in EncWritten(en_encs[e]) THEN e
                           ELSE en_mem[a]]
          /\ en_busy' = en_busy \cup {e}
    /\ UNCHANGED <<en_encs, en_next, en_torn>>
    /\ UNCHANGED enRest

\* The Encrypt call of e reads its buffers back and returns.
EncEncryptEnd ==
    /\ \E e \in en_busy :
          /\ en_torn' = IF \E a \in EncWritten(en_encs[e]) : en_mem[a] /= e
                        THEN en_torn \cup {e} ELSE en_torn
          /\ en_busy' = en_busy \ {e}
    /\ UNCHANGED <<en_encs, en_next, en_mem>>
    /\ UNCHANGED enRest

EncNext ==
    \/ EncShallowCopy
    \/ EncWithKey
    \/ EncEncryptBegin
    \/ EncEncryptEnd

SpecEnc == EncInit /\ [][EncNext]_vars

\* Encryptor c was made from Encryptor r by the operation via.
EncMadeFrom(c, r, via) ==
    /\ c \in 1 .. Len(en_encs)
    /\ en_encs[c].via = via
    /\ en_encs[c].parent = r

(***************************************************************************)
(* C18: the Encryptor returned by ShallowCopy shares only the read-only    *)
(* parameters and key with its receiver; its temporary buffers (and every  *)
(* other mutable part) are fresh, so no write of one ever lands in memory  *)
(* the other uses.                                                         *)
(***************************************************************************)
C18_ShallowCopyFreshBuffers ==
    \A c \in 1 .. Len(en_encs), r \in 1 .. Len(en_encs) :
        EncMadeFrom(c, r, "ShallowCopy") =>
            /\ en_encs[c].params = en_encs[r].params
            /\ en_encs[c].key = en_encs[r].key
            /\ en_encs[c].core /= en_encs[r].core
            /\ EncMutable(en_encs[c]) \cap EncMutable(en_encs[r]) = {}
            /\ \A a \in EncMutable(en_encs[r]) : en_mem[a] /= c
            /\ \A a \in EncMutable(en_encs[c]) : en_mem[a] /= r

\* A receiver and its shallow copy are in Encrypt at the same time.
C18_Witness ==
    \E c \in en_busy, r \in en_busy :
        /\ EncMadeFrom(c, r, "ShallowCopy")
        /\ en_mem[en_encs[c].buffers] = c
        /\ en_mem[en_encs[r].buffers] = r

(***************************************************************************)
(* C19: the Encryptor returned by enc.WithKey(k) encrypts under k and,     *)
(* like enc.ShallowCopy().WithKey(k), has temporary buffers of its own     *)
(* rather than the receiver's, so that both can be used concurrently.      *)
(***************************************************************************)
C19_WithKeyOwnBuffers ==
    \A c \in 1 .. Len(en_encs), r \in 1 .. Len(en_encs) :
        EncMadeFrom(c, r, "WithKey") =>
            /\ en_encs[c].key \in EncKeys
            /\ EncMutable(en_encs[c]) \cap EncMutable(en_encs[r]) = {}
            /\ c \notin en_torn
            /\ r \notin en_torn

(***************************************************************************)
(* Rescaling: ckksDummyEvaluator.Rescale (circuits/poly_eval_ckks.go:      *)
(* 133-139), which tracks the level and scale of an operand, next to the   *)
(* routine that removes the limbs from the polynomial (modDown or          *)
(* DivRoundByLastModulusMany), on one coefficient as test_Rescaling        *)
(* (unnamed/part_007:859-898) sets it up.                                  *)
(***************************************************************************)
\* Largest level of a rescaled polynomial.
RescaleMaxLevel == 3

\* The first primes of the chain, as many as the largest level needs.
RECURSIVE RescaleChain(_, _)
RescaleChain(len, candidate) ==
    IF len = 0 THEN <<>>
    ELSE IF \E d \in 2 .. candidate - 1 : candidate % d = 0
    THEN RescaleChain(len, candidate + 2)
    ELSE <<candidate>> \o RescaleChain(len - 1, candidate + 2)

\* poly_eval_ckks.go:137, leaving the level where it was.
DummyRescaleLevelKept(level) == level

\* poly_eval_ckks.go:137: op0.Level--.
DummyRescaleLevel(level) == level - 1

\* poly_eval_ckks.go:136: op0.Scale.Div(rlwe.NewScale(d.params.Q()[op0.Level])),
\* the scale held as the fraction <<numerator, denominator>>.
DummyRescaleScale(scale, Q, level) == <<scale[1], scale[2] * Q[level + 1]>>

\* part_007:865-881: a polynomial at the top level of its moduli, from an
\* integer coefficient.  Only operands with a limb left after the rescaling
\* are taken (the operands checkEnoughLevels lets through).
RescaleInit ==
    /\ rsAlone
    /\ \E level \in 1 .. RescaleMaxLevel :
          /\ rs_Q = RescaleChain(level + 1, 3)
          /\ rs_lcpr \in 1 .. level
          /\ rs_op = [Level |-> level, Scale |-> <<ProdSeq(rs_Q), 1>>]
    /\ rs_x \in 0 .. ProdSeq(rs_Q) - 1
    /\ rs_in = Residues(rs_x, rs_Q)
    /\ rs_poly = rs_in
    /\ rs_routine \in {"ModDown", "DivRoundByLastModulusMany"}
    /\ rs_i = 0
    /\ rs_pc = "Loop"

\* poly_eval_ckks.go:135-138: one iteration of the loop.
DummyRescaleIteration ==
    /\ rs_pc = "Loop"
    /\ rs_i < rs_lcpr
    /\ rs_op' = [Level |-> DummyRescaleLevel(rs_op.Level),
                 Scale |-> DummyRescaleScale(rs_op.Scale, rs_Q, rs_op.Level)]
    /\ rs_i' = rs_i + 1
    /\ UNCHANGED <<rs_Q, rs_x, rs_in, rs_poly, rs_routine, rs_lcpr, rs_pc>>
    /\ UNCHANGED rsRest

\* poly_eval_ckks.go:135: the loop ends.
DummyRescaleReturn ==
    /\ rs_pc = "Loop"
    /\ rs_i >= rs_lcpr
    /\ rs_pc' = "Rescale"
    /\ UNCHANGED <<rs_Q, rs_x, rs_in, rs_poly, rs_routine, rs_lcpr, rs_op,
                   rs_i>>
    /\ UNCHANGED rsRest

\* part_007:886: the rescaling of the polynomial itself, removing the last
\* levelsConsummedPerRescaling limbs.
CallRescale ==
    /\ rs_pc = "Rescale"
    /\ LET kept == Len(rs_Q) - rs_lcpr
           Q == SubSeq(rs_Q, 1, kept)
           P == SubSeq(rs_Q, kept + 1, Len(rs_Q))
       IN  rs_poly' =
              IF rs_routine = "ModDown"
              THEN ModDown(SubSeq(rs_in, 1, kept),
                           SubSeq(rs_in, kept + 1, Len(rs_Q)), Q, P)
              ELSE DivRoundByLastModulusMany(rs_in, rs_Q, rs_lcpr)
    /\ rs_pc' = "Done"
    /\ UNCHANGED <<rs_Q, rs_x, rs_in, rs_routine, rs_lcpr, rs_op, rs_i>>
    /\ UNCHANGED rsRest

RescaleNext ==
    \/ DummyRescaleIteration
    \/ DummyRescaleReturn
    \/ CallRescale

SpecRescale == RescaleInit /\ [][RescaleNext]_vars

\* The moduli removed by the rescaling, and their product.
RescaleRemoved == SubSeq(rs_Q, Len(rs_Q) - rs_lcpr + 1, Len(rs_Q))

\* The modular correction: the integer subtracted from the coefficient
\* before the exact division, a function of the removed limbs alone.
RescaleCorrection ==
    LET P  == RescaleRemoved
        xr == CRT(SubSeq(rs_in, Len(rs_Q) - rs_lcpr + 1, Len(rs_Q)), P)
    IN  IF rs_routine = "ModDown"
        THEN xr - ProdSeq(P) * DivRound(xr, ProdSeq(P))
        ELSE xr - ProdSeq(P) * DivRoundWant(xr, rs_Q, rs_lcpr)

MarshalMaxDegree == 2

\* Largest level of a marshalled ciphertext.
MarshalMaxLevel == 1

\* Largest log2 of the ring degree of a marshalled ciphertext.
MarshalMaxLogN == 1

\* Number of distinct coefficient fillings explored.
MarshalSeeds == 3

\* Bytes of a coefficient and of a scale in the encoding.
WordBytes == 8

\* uint8(x).
Uint8(x) == x % 256

\* binary.BigEndian.PutUint64.
RECURSIVE PutUint64(_, _)
PutUint64(x, width) ==
    IF width = 0 THEN <<>>
    ELSE Append(PutUint64(x \div 256, width - 1), x % 256)

\* binary.BigEndian.Uint64.
RECURSIVE Uint64At(_, _, _)
Uint64At(data, ptr, width) ==
    IF width = 0 THEN 0
    ELSE 256 * Uint64At(data, ptr, width - 1) + data[ptr + width]

RECURSIVE Concat(_)
Concat(seqs) ==
    IF seqs = <<>> THEN <<>> ELSE Head(seqs) \o Concat(Tail(seqs))

\* Poly.GetDataLen64(true).
GetDataLen64(poly) == 2 + Len(poly) * Len(poly[1]) * WordBytes

\* Poly.WriteTo64: the bytes of one polynomial.
WriteTo64(poly) ==
    <<Uint8(Len64(Len(poly[1])) - 1), Uint8(Len(poly))>>
       \o Concat([k \in 1 .. Len(poly) * Len(poly[1]) |->
             PutUint64(poly[(k - 1) \div Len(poly[1]) + 1]
                           [((k - 1) % Len(poly[1])) + 1], WordBytes)])

\* Poly.DecodePoly64 on data[ptr:] (ptr counted from 0): the polynomial and
\* the number of bytes read, or an error when the bytes do not suffice.
DecodePoly64(data, ptr) ==
    IF Len(data) - ptr < 2
    THEN [err |-> "err", poly |-> <<>>, inc |-> 0]
    ELSE LET N == Pow(2, data[ptr + 1])
             numberModuli == data[ptr + 2]
         IN  IF Len(data) - ptr - 2 < N * numberModuli * WordBytes
             THEN [err |-> "err", poly |-> <<>>, inc |-> 0]
             ELSE [err |-> "nil",
                   poly |-> [i \in 1 .. numberModuli |-> [j \in 1 .. N |->
                       Uint64At(data,
                                ptr + 2 + ((i - 1) * N + (j - 1)) * WordBytes,
                                WordBytes)]],
                   inc |-> 2 + N * numberModuli * WordBytes]

\* part_005:10-29: Ciphertext.GetDataLen(true).
GetDataLen(el) ==
    1 + SumSeq([k \in 1 .. Len(el.Value) |-> GetDataLen64(el.Value[k])])
      + 1 + (IF el.Scale /= <<>> THEN WordBytes ELSE 0)

\* part_005:33-58: Ciphertext.MarshalBinary.
MarshalBinary(el) ==
    LET scale == IF el.Scale /= <<>>
                 THEN <<1>> \o PutUint64(el.Scale[1], WordBytes)
                 ELSE <<0>>
    IN  scale \o <<Uint8((Len(el.Value) - 1) + 1)>>
           \o Concat([k \in 1 .. Len(el.Value) |-> WriteTo64(el.Value[k])])

\* part_005:78-89: the loop over el.Value, from polynomial i on.
RECURSIVE UnmarshalPolys(_, _, _, _)
UnmarshalPolys(data, ptr, i, value) ==
    IF i > Len(value) THEN [err |-> "nil", Value |-> value, ptr |-> ptr]
    ELSE LET d == DecodePoly64(data, ptr)
         IN  IF d.err /= "nil"
             THEN [err |-> "err",
                   Value |-> [value EXCEPT ![i] = <<>>], ptr |-> ptr]
             ELSE UnmarshalPolys(data, ptr + d.inc, i + 1,
                                 [value EXCEPT ![i] = d.poly])

\* part_005:61-97: Ciphertext.UnmarshalBinary on the receiver el: the error
\* and the receiver as the call leaves it.
UnmarshalBinary(el, data) ==
    IF Len(data) < 10 THEN [err |-> "too small bytearray", el |-> el]
    ELSE IF data[1] = 1 /\ el.Scale = <<>>
    THEN [err |-> "Scale field is nil", el |-> el]
    ELSE LET withScale == data[1] = 1
             scale == IF withScale THEN <<Uint64At(data, 1, WordBytes)>>
                      ELSE el.Scale
             ptr == IF withScale THEN 1 + WordBytes ELSE 1
             r == UnmarshalPolys(data, ptr + 1, 1,
                                 [k \in 1 .. data[ptr + 1] |-> <<>>])
         IN  [err |-> IF r.err /= "nil" THEN r.err
                      ELSE IF r.ptr /= Len(data)
                      THEN "remaining unparsed data" ELSE "nil",
              el |-> [Value |-> r.Value, Scale |-> scale]]

\* The coefficient j of limb i of polynomial k under filling seed.
MarshalCoef(seed, k, i, j) ==
    (seed * 389 + k * 211 + i * 97 + j * 31) % WordMod

\* part_007:2631 and 2636: NewCiphertextRandom and the Ciphertext the bytes
\* are unmarshalled into, new(Ciphertext) or one with an allocated scale.
MarshalInit ==
    /\ msAlone
    /\ \E degree \in 0 .. MarshalMaxDegree, level \in 0 .. MarshalMaxLevel,
          logN \in 0 .. MarshalMaxLogN, seed \in 1 .. MarshalSeeds,
          scale \in {<<>>, <<40>>, <<1000>>} :
          ms_ct = [Value |-> [k \in 1 .. degree + 1 |->
                                [i \in 1 .. level + 1 |->
                                   [j \in 1 .. Pow(2, logN) |->
                                      MarshalCoef(seed, k, i, j)]]],
                   Scale |-> scale]
    /\ ms_target \in {[Value |-> <<>>, Scale |-> <<>>],
                      [Value |-> <<>>, Scale |-> <<0>>]}
    /\ ms_new = (ms_target.Scale = <<>>)
    /\ ms_data = <<>>
    /\ ms_err = "nil"
    /\ ms_pc = "Marshal"

\* part_007:2633: marshalledCiphertext, err := ciphertextWant.MarshalBinary().
CallMarshalBinary ==
    /\ ms_pc = "Marshal"
    /\ ms_data' = MarshalBinary(ms_ct)
    /\ ms_pc' = "Unmarshal"
    /\ UNCHANGED <<ms_ct, ms_target, ms_err, ms_new>>
    /\ UNCHANGED msRest

\* part_007:2636-2637: ciphertextTest.UnmarshalBinary(marshalledCiphertext).
CallUnmarshalBinary ==
    /\ ms_pc = "Unmarshal"
    /\ LET r == UnmarshalBinary(ms_target, ms_data)
       IN  ms_err' = r.err /\ ms_target' = r.el
    /\ ms_pc' = "Done"
    /\ UNCHANGED <<ms_ct, ms_data, ms_new>>
    /\ UNCHANGED msRest

MarshalNext ==
    \/ CallMarshalBinary
    \/ CallUnmarshalBinary

SpecMarshal == MarshalInit /\ [][MarshalNext]_vars

(***************************************************************************)
(* C21: for every ciphertext ct, unmarshalling MarshalBinary(ct) into a    *)
(* new Ciphertext succeeds and gives the degree, the level, the scale and  *)
(* the limb values of ct.                                                  *)
(***************************************************************************)
C21_MarshalRoundTrip ==
    (ms_pc = "Done" /\ ms_new) =>
        /\ ms_err = "nil"
        /\ Len(ms_target.Value) = Len(ms_ct.Value)
        /\ Len(ms_target.Value[1]) = Len(ms_ct.Value[1])
        /\ ms_target.Scale = ms_ct.Scale
        /\ ms_target.Value = ms_ct.Value

(***************************************************************************)
(* evaluator.EvaluatePolyFast, computePowerBasis and recurse               *)
(* (ckks/polynomial_evaluation.go:8-30, 76-93, 115-140).  The arithmetic   *)
(* is uint64 (WordBits bits here); a ciphertext multiplication is counted, *)
(* its value is not computed.                                              *)
(***************************************************************************)
\* Largest degree of an evaluated polynomial.
PolyFastMaxDegree == 9

\* 1 << s on uint64: 0 when the shift is the width or more.
ShiftLeft(s) == IF s >= WordBits THEN 0 ELSE Pow(2, s)

\* polynomial_evaluation.go:76-93: the powers held by C after
\* computePowerBasis(n, C); every power added costs one multiplication.
RECURSIVE computePowerBasis(_, _)
computePowerBasis(n, C) ==
    IF n \in C THEN C
    ELSE LET a == (n + 1) \div 2
             b == n \div 2
         IN  computePowerBasis(b, computePowerBasis(a, C)) \cup {n}

\* polynomial_evaluation.go:10-17: degree, C[1], M and L.
PolyFastInit ==
    /\ pfAlone
    /\ pf_degree \in 0 .. PolyFastMaxDegree
    /\ pf_M = Len64(Wrap(pf_degree - 1))
    /\ pf_L = pf_M \div 2
    /\ pf_i = 2
    /\ pf_C = {1}
    /\ pf_stack = <<>>
    /\ pf_mults = 0
    /\ pf_pc = "Basis"

\* polynomial_evaluation.go:19-21: one iteration of the first loop.
PolyFastBasis ==
    /\ pf_pc = "Basis"
    /\ pf_i <= ShiftLeft(pf_L)
    /\ pf_C' = computePowerBasis(pf_i, pf_C)
    /\ pf_mults' = pf_mults + Cardinality(pf_C' \ pf_C)
    /\ pf_i' = pf_i + 1
    /\ UNCHANGED <<pf_degree, pf_M, pf_L, pf_stack, pf_pc>>
    /\ UNCHANGED pfRest

\* polynomial_evaluation.go:19, 23: the first loop ends, i := L + 1.
PolyFastBasisEnd ==
    /\ pf_pc = "Basis"
    /\ pf_i > ShiftLeft(pf_L)
    /\ pf_i' = pf_L + 1
    /\ pf_pc' = "Powers"
    /\ UNCHANGED <<pf_degree, pf_M, pf_L, pf_C, pf_stack, pf_mults>>
    /\ UNCHANGED pfRest

\* polynomial_evaluation.go:23-25: one iteration of the second loop.
PolyFastPowers ==
    /\ pf_pc = "Powers"
    /\ pf_i < pf_M
    /\ pf_C' = computePowerBasis(ShiftLeft(pf_i), pf_C)
    /\ pf_mults' = pf_mults + Cardinality(pf_C' \ pf_C)
    /\ pf_i' = pf_i + 1
    /\ UNCHANGED <<pf_degree, pf_M, pf_L, pf_stack, pf_pc>>
    /\ UNCHANGED pfRest

\* polynomial_evaluation.go:23, 29: the second loop ends and recurse is
\* called on the whole polynomial.
PolyFastPowersEnd ==
    /\ pf_pc = "Powers"
    /\ pf_i >= pf_M
    /\ pf_stack' = <<[maxDegree |-> pf_degree, M |-> pf_M, at |-> "enter"]>>
    /\ pf_pc' = "Recurse"
    /\ UNCHANGED <<pf_degree, pf_M, pf_L, pf_i, pf_C, pf_mults>>
    /\ UNCHANGED pfRest

\* polynomial_evaluation.go:121-123: for 1<<(M-1) > maxDegree { M-- }.
RECURSIVE recurseM(_, _)
recurseM(M, maxDegree) ==
    IF ShiftLeft(Wrap(M - 1)) > maxDegree THEN recurseM(Wrap(M - 1), maxDegree)
    ELSE M

\* polynomial_evaluation.go:117-127: a call of recurse starts; it returns
\* at once from the power basis, or splits and calls itself on the
\* quotient.
RecurseEnter ==
    /\ pf_pc = "Recurse"
    /\ pf_stack /= <<>>
    /\ LET top == pf_stack[Len(pf_stack)]
           M == recurseM(top.M, top.maxDegree)
           split == ShiftLeft(Wrap(M - 1))
       IN  /\ top.at = "enter"
           /\ pf_stack' =
                 IF top.maxDegree <= ShiftLeft(pf_L)
                 THEN SubSeq(pf_stack, 1, Len(pf_stack) - 1)
                 ELSE Append([pf_stack EXCEPT ![Len(pf_stack)] =
                                 [maxDegree |-> top.maxDegree, M |-> M,
                                  at |-> "quotient"]],
                             [maxDegree |-> Wrap(top.maxDegree - split),
                              M |-> Wrap(M - 1), at |-> "enter"])
    /\ UNCHANGED <<pf_degree, pf_M, pf_L, pf_i, pf_C, pf_mults, pf_pc>>
    /\ UNCHANGED pfRest

\* polynomial_evaluation.go:129-130: the quotient is back, recurse calls
\* itself on the remainder.
RecurseRemainder ==
    /\ pf_pc = "Recurse"
    /\ pf_stack /= <<>>
    /\ LET top == pf_stack[Len(pf_stack)]
       IN  /\ top.at = "quotient"
           /\ pf_stack' =
                 Append([pf_stack EXCEPT ![Len(pf_stack)].at = "remainder"],
                        [maxDegree |-> Wrap(ShiftLeft(Wrap(top.M - 1)) - 1),
                         M |-> Wrap(top.M - 1), at |-> "enter"])
    /\ UNCHANGED <<pf_degree, pf_M, pf_L, pf_i, pf_C, pf_mults, pf_pc>>
    /\ UNCHANGED pfRest

\* polynomial_evaluation.go:132-138: MulRelin by C[1<<(M-1)], Add, Rescale
\* and return.
RecurseCombine ==
    /\ pf_pc = "Recurse"
    /\ pf_stack /= <<>>
    /\ pf_stack[Len(pf_stack)].at = "remainder"
    /\ pf_stack' = SubSeq(pf_stack, 1, Len(pf_stack) - 1)
    /\ pf_mults' = pf_mults + 1
    /\ UNCHANGED <<pf_degree, pf_M, pf_L, pf_i, pf_C, pf_pc>>
    /\ UNCHANGED pfRest

\* polynomial_evaluation.go:29: the outermost recurse is back.
PolyFastReturn ==
    /\ pf_pc = "Recurse"
    /\ pf_stack = <<>>
    /\ pf_pc' = "Done"
    /\ UNCHANGED <<pf_degree, pf_M, pf_L, pf_i, pf_C, pf_stack, pf_mults>>
    /\ UNCHANGED pfRest

PolyFastNext ==
    \/ PolyFastBasis
    \/ PolyFastBasisEnd
    \/ PolyFastPowers
    \/ PolyFastPowersEnd
    \/ RecurseEnter
    \/ RecurseRemainder
    \/ RecurseCombine
    \/ PolyFastReturn

SpecPolyFast == PolyFastInit /\ [][PolyFastNext]_vars

(***************************************************************************)
(* C22: EvaluatePolyFast on any non-empty coefficient list does a number   *)
(* of steps bounded by the degree of the polynomial: it never makes more   *)
(* ciphertext multiplications than the degree, never computes a power      *)
(* above the degree, and recurse is never nested deeper than the bit       *)
(* length of the degree.                                                   *)
(***************************************************************************)
C22_StepsBoundedByDegree ==
    /\ pf_mults <= pf_degree
    /\ \A n \in pf_C : n <= 1 \/ n <= pf_degree
    /\ Len(pf_stack) <= Len64(pf_degree) + 1

(***************************************************************************)
(* Evaluator.NegNew (dbfv/publickey_gen.go:281-296) on elements whose      *)
(* polynomials have NegN coefficients.                                     *)
(***************************************************************************)
\* Largest degree of a negated element.
NegMaxDegree == 2

\* Number of coefficients of a polynomial of a negated element.
NegN == 2

\* contextQ.Neg: coefficient-wise negation modulo q.
ContextNeg(p1, q) == [j \in 1 .. Len(p1) |-> (q - p1[j]) % q]

\* publickey_gen.go:283-287: NewPlaintext() or NewCiphertext(c0.Degree()),
\* degree + 1 zero polynomials.
NegNewAlloc ==
    /\ ng_pc = "Alloc"
    /\ ng_cOut' = [k \in 1 .. Len(ng_c0) |-> [j \in 1 .. NegN |-> 0]]
    /\ ng_i' = 0
    /\ ng_pc' = "Loop"
    /\ UNCHANGED <<ng_q, ng_in, ng_c0, ng_ret>>
    /\ UNCHANGED ngRest

\* publickey_gen.go:289-291: one iteration of the loop over c0.Value().
NegNewIteration ==
    /\ ng_pc = "Loop"
    /\ ng_i < Len(ng_c0)
    /\ ng_cOut' = [ng_cOut EXCEPT ![ng_i + 1] = ContextNeg(ng_c0[ng_i + 1], ng_q)]
    /\ ng_i' = ng_i + 1
    /\ UNCHANGED <<ng_q, ng_in, ng_c0, ng_ret, ng_pc>>
    /\ UNCHANGED ngRest

\* publickey_gen.go:293: return nil.
NegNewReturn ==
    /\ ng_pc = "Loop"
    /\ ng_i >= Len(ng_c0)
    /\ ng_ret' = [isNil |-> TRUE, Value |-> <<>>]
    /\ ng_pc' = "Done"
    /\ UNCHANGED <<ng_q, ng_in, ng_c0, ng_cOut, ng_i>>
    /\ UNCHANGED ngRest

NegInit ==
    /\ ngAlone
    /\ ng_q \in Moduli
    /\ \E degree \in 0 .. NegMaxDegree :
          ng_in \in [1 .. degree + 1 -> [1 .. NegN -> {0, 1, ng_q - 1}]]
    /\ ng_c0 = ng_in
    /\ ng_cOut = <<>>
    /\ ng_i = 0
    /\ ng_ret = [isNil |-> TRUE, Value |-> <<>>]
    /\ ng_pc = "Alloc"

NegNext ==
    \/ NegNewAlloc
    \/ NegNewIteration
    \/ NegNewReturn

SpecNeg == NegInit /\ [][NegNext]_vars

(***************************************************************************)
(* C23: NegNew returns a new element of the degree of its input whose      *)
(* polynomials are the negations of the input's, and leaves the input      *)
(* unchanged.                                                              *)
(***************************************************************************)
C23_NegNewReturnsNegation ==
    ng_pc = "Done" =>
        /\ ~ng_ret.isNil
        /\ Len(ng_ret.Value) = Len(ng_in)
        /\ \A k \in 1 .. Len(ng_in) :
              \A j \in 1 .. NegN :
                 (ng_ret.Value[k][j] + ng_in[k][j]) % ng_q = 0
        /\ ng_c0 = ng_in

(***************************************************************************)
(* Evaluator.Relinearize, Evaluator.RelinearizeNew and relinearize         *)
(* (dbfv/publickey_gen.go:437-484).  The polynomials are held by a tag     *)
(* saying what they contain; the key switch itself is switchKeys, modelled *)
(* above.                                                                  *)
(***************************************************************************)
\* Largest degree of a ciphertext and largest length of an evaluation key.
RlzMaxDegree == 4

\* int(x) of a uint64 x: the two's complement value.
ToInt(x) == IF x >= WordMod \div 2 THEN x - WordMod ELSE x

\* publickey_gen.go:439, 454 comparing the degree itself.
RlzDegreeTooLargeStrict(degree, keyLen) == ToInt(degree) > keyLen

\* publickey_gen.go:439, 454: int(cIn.Degree()-1) > len(evakey.evakey).
RlzDegreeTooLarge(degree, keyLen) == ToInt(Wrap(degree - 1)) > keyLen

\* A ciphertext, an evaluation key and, for Relinearize, a receiver with
\* room for the two polynomials of the result (cIn itself or another
\* ciphertext of degree at least 1).
RlzInit ==
    /\ rnAlone
    /\ rn_op \in {"Relinearize", "RelinearizeNew"}
    /\ rn_degIn \in 0 .. RlzMaxDegree
    /\ rn_keyLen \in 0 .. RlzMaxDegree
    /\ rn_same \in BOOLEAN
    /\ rn_op = "RelinearizeNew" => ~rn_same
    /\ rn_same => rn_degIn >= 1
    /\ IF rn_op = "RelinearizeNew" THEN rn_out = <<>>
       ELSE IF rn_same THEN rn_out = [k \in 1 .. rn_degIn + 1 |-> "in"]
       ELSE \E degOut \in 1 .. RlzMaxDegree :
               rn_out = [k \in 1 .. degOut + 1 |-> "stale"]
    /\ rn_deg = 0
    /\ rn_reads = <<>>
    /\ rn_err = "nil"
    /\ rn_pc = "Check"

\* publickey_gen.go:439-445 (454-462): the two checks, and for
\* RelinearizeNew the allocation of cOut.
RlzCheck ==
    /\ rn_pc = "Check"
    /\ IF RlzDegreeTooLarge(rn_degIn, rn_keyLen)
       THEN rn_err' = "degree too large" /\ rn_pc' = "Return"
            /\ UNCHANGED rn_out
       ELSE IF rn_degIn < 2
       THEN rn_err' = "already of degree 1 or 0" /\ rn_pc' = "Return"
            /\ UNCHANGED rn_out
       ELSE /\ rn_pc' = "NTT"
            /\ rn_out' = IF rn_op = "RelinearizeNew"
                         THEN <<"zero", "zero">> ELSE rn_out
            /\ UNCHANGED rn_err
    /\ UNCHANGED <<rn_op, rn_degIn, rn_keyLen, rn_same, rn_deg, rn_reads>>
    /\ UNCHANGED rnRest

\* publickey_gen.go:471-474: the two NTT into cOut, deg := cIn.Degree().
RlzNTT ==
    /\ rn_pc = "NTT"
    /\ rn_out' = [rn_out EXCEPT ![1] = "NTT(in)", ![2] = "NTT(in)"]
    /\ rn_deg' = rn_degIn
    /\ rn_pc' = "Loop"
    /\ UNCHANGED <<rn_op, rn_degIn, rn_keyLen, rn_same, rn_reads, rn_err>>
    /\ UNCHANGED rnRest

\* publickey_gen.go:474-476: one iteration, switchKeys with
\* evakey.evakey[deg-2]; an index outside the slice is a run-time panic.
RlzSwitchKeys ==
    /\ rn_pc = "Loop"
    /\ rn_deg > 1
    /\ IF rn_deg - 2 >= rn_keyLen
       THEN rn_pc' = "Panic" /\ UNCHANGED <<rn_out, rn_deg, rn_reads>>
       ELSE /\ rn_reads' = Append(rn_reads, rn_deg - 2)
            /\ rn_out' = [rn_out EXCEPT ![1] = "switched", ![2] = "switched"]
            /\ rn_deg' = rn_deg - 1
            /\ UNCHANGED rn_pc
    /\ UNCHANGED <<rn_op, rn_degIn, rn_keyLen, rn_same, rn_err>>
    /\ UNCHANGED rnRest

\* publickey_gen.go:478-483: cOut cut to two polynomials, the two InvNTT,
\* and the return of Relinearize / RelinearizeNew.
RlzFinish ==
    /\ rn_pc = "Loop"
    /\ rn_deg <= 1
    /\ rn_out' = [k \in 1 .. 2 |-> "InvNTT(" \o rn_out[k] \o ")"]
    /\ rn_pc' = "Return"
    /\ UNCHANGED <<rn_op, rn_degIn, rn_keyLen, rn_same, rn_deg, rn_reads,
                   rn_err>>
    /\ UNCHANGED rnRest

RlzNext ==
    \/ RlzCheck
    \/ RlzNTT
    \/ RlzSwitchKeys
    \/ RlzFinish

SpecRlz == RlzInit /\ [][RlzNext]_vars

RECURSIVE KSLazyRun(_)
KSLazyRun(log) ==
    IF log = <<>> \/ log[Len(log)][1] = "Reduce" THEN 0
    ELSE KSLazyRun(SubSeq(log, 1, Len(log) - 1))
         + (IF log[Len(log)][1] = "Accumulate" THEN 1 ELSE 0)

\* The accumulations of the whole log.
KSAccumulations(log) == Len(SelectSeq(log, LAMBDA e : e[1] = "Accumulate"))

\* Every coefficient of both polynomials of cOut lies in [0, q).
KSFullyReduced(cOut, context) ==
    \A b \in 1 .. 2 : \A v \in 1 .. Len(context) : \A u \in 0 .. context[v].N - 1 :
        cOut[b][v][u] \in 0 .. context[v].Modulus - 1

(***************************************************************************)
(* C25: in switchKeys, whatever the number of moduli and of digits per     *)
(* modulus, no more than 8 lazy multiply-accumulate steps are applied to   *)
(* the accumulators without a Reduce (from the start and between two       *)
(* consecutive Reduce calls), and at return, when at least one digit was   *)
(* accumulated, a Reduce follows the last accumulation and every           *)
(* coefficient of both output polynomials lies in [0, q).                  *)
(***************************************************************************)
C25_LazyReductionBounded ==
    /\ \A n \in 0 .. Len(ks_log) : KSLazyRun(SubSeq(ks_log, 1, n)) <= 8
    /\ (ks_pc = "Done" /\ KSAccumulations(ks_log) >= 1) =>
          /\ KSLazyRun(ks_log) = 0
          /\ KSFullyReduced(ks_cOut, ks_context)

\* A key switch of 14 digits: a Reduce after the eighth and one at the end.
C25_Witness ==
    /\ ks_pc = "Done"
    /\ KSAccumulations(ks_log) = 14
    /\ Len(SelectSeq(ks_log, LAMBDA e : e[1] = "Reduce")) = 2
    /\ ks_cIn[1][1][0] # 0

(***************************************************************************)
(* evaluator.MultiplyByDiagMatrix (ckks/linear_transform.go:377-471 and    *)
(* 1062-1176): the calls made on the accumulators c0OutQP, c1OutQP (the    *)
(* second listing: ctOut.Value and accP0, accP1).  Every rotation key is   *)
(* present.  The log holds one entry per pair of calls (the same call is   *)
(* always made on both accumulators).                                      *)
(***************************************************************************)
\* Largest diagonal index explored.
DiagRedMaxIndex == 4

\* Largest overflow margin QiOverF, PiOverF explored.
DiagRedMaxMargin == 3

\* linear_transform.go:438 and 443 (1143, 1148): the test "cnt%F == F-1"
\* of the loop body.
DiagLoopReduces(cnt, F) == cnt % F = F - 1

\* linear_transform.go:449 and 454 (1155, 1160): the test "cnt%F == 0"
\* after the loop.
DiagFinalReduces(cnt, F) == cnt % F = 0

DiagRedInit ==
    /\ drAlone
    /\ dr_vec \in SUBSET (0 .. DiagRedMaxIndex) \ {{}}
    /\ dr_todo = dr_vec
    /\ dr_QiOverF \in 1 .. DiagRedMaxMargin
    /\ dr_PiOverF \in 1 .. DiagRedMaxMargin
    /\ dr_state = FALSE
    /\ dr_cnt = 0
    /\ dr_log = <<>>
    /\ dr_pc = "Loop"

\* linear_transform.go:406-447 (1101-1153): one iteration of
\* "for k := range matrix.Vec": the diagonal 0 sets state; any other one is
\* multiplied into the accumulators (cnt = 0) or multiplied and added, the
\* Q and the P part are reduced when their test says so, and cnt++.
DiagRedIteration ==
    /\ dr_pc = "Loop"
    /\ \E k \in dr_todo :
          /\ dr_todo' = dr_todo \ {k}
          /\ IF k = 0
             THEN dr_state' = TRUE /\ UNCHANGED <<dr_cnt, dr_log>>
             ELSE /\ dr_log' = dr_log
                        \o <<IF dr_cnt = 0 THEN "MulCoeffsMontgomeryLvl"
                             ELSE "MulCoeffsMontgomeryAndAddLvl">>
                        \o (IF DiagLoopReduces(dr_cnt, dr_QiOverF)
                            THEN <<"ReduceQ">> ELSE <<>>)
                        \o (IF DiagLoopReduces(dr_cnt, dr_PiOverF)
                            THEN <<"ReduceP">> ELSE <<>>)
                  /\ dr_cnt' = dr_cnt + 1
                  /\ UNCHANGED dr_state
    /\ UNCHANGED <<dr_vec, dr_QiOverF, dr_PiOverF, dr_pc>>
    /\ UNCHANGED drRest

\* linear_transform.go:449-470 (1155-1175): the reductions after the loop,
\* the two ModDownQPtoQNTT, the diagonal 0 and the return.
DiagRedReturn ==
    /\ dr_pc = "Loop"
    /\ dr_todo = {}
    /\ dr_log' = dr_log
          \o (IF DiagFinalReduces(dr_cnt, dr_QiOverF) THEN <<"FinalReduceQ">> ELSE <<>>)
          \o (IF DiagFinalReduces(dr_cnt, dr_PiOverF) THEN <<"FinalReduceP">> ELSE <<>>)
          \o <<"ModDownQPtoQNTT">>
          \o (IF dr_state THEN <<"MulCoeffsMontgomeryAndAddLvl">> ELSE <<>>)
    /\ dr_pc' = "Return"
    /\ UNCHANGED <<dr_vec, dr_todo, dr_QiOverF, dr_PiOverF, dr_state, dr_cnt>>
    /\ UNCHANGED drRest

DiagRedNext ==
    \/ DiagRedIteration
    \/ DiagRedReturn

SpecDiagRed == DiagRedInit /\ [][DiagRedNext]_vars

\* The log up to the ModDown.
DiagBeforeModDown ==
    LET m == CHOOSE i \in DOMAIN dr_log : dr_log[i] = "ModDownQPtoQNTT"
    IN  SubSeq(dr_log, 1, m - 1)

\* The position of the last entry of log that is one of ops, 0 when none.
DiagLast(log, ops) ==
    LET S == {i \in DOMAIN log : log[i] \in ops}
    IN  IF S = {} THEN 0 ELSE CHOOSE i \in S : \A j \in S : j <= i

\* A reduction of the named part follows the last multiplication of log.
DiagReducedAfterLast(log, reduces) ==
    DiagLast(log, reduces)
        > DiagLast(log, {"MulCoeffsMontgomeryLvl", "MulCoeffsMontgomeryAndAddLvl"})

\* The last loop iteration that multiplied reduced the named part itself.
DiagLastIterationReduced(log, reduce) ==
    DiagLast(log, {reduce})
        > DiagLast(log, {"MulCoeffsMontgomeryLvl", "MulCoeffsMontgomeryAndAddLvl"})

(***************************************************************************)
(* C26: in MultiplyByDiagMatrix with cnt >= 1 diagonals of non-zero        *)
(* rotation and margins QiOverF, PiOverF >= 1, when ModDownQPtoQNTT is     *)
(* called a reduction of the Q part and one of the P part have followed    *)
(* the last multiplication into the accumulators, and the reduction after  *)
(* the loop runs exactly when the last iteration did not reduce.           *)
(***************************************************************************)
C26_ReducedBeforeModDown ==
    (dr_pc = "Return" /\ dr_cnt >= 1) =>
        LET log == DiagBeforeModDown
        IN  /\ DiagReducedAfterLast(log, {"ReduceQ", "FinalReduceQ"})
            /\ DiagReducedAfterLast(log, {"ReduceP", "FinalReduceP"})
            /\ (DiagLast(log, {"FinalReduceQ"}) > 0) = ~DiagLastIterationReduced(log, "ReduceQ")
            /\ (DiagLast(log, {"FinalReduceP"}) > 0) = ~DiagLastIterationReduced(log, "ReduceP")

\* The plaintext holds level + 1 limbs, each coefficient in [0, q).
DecryptReduced(p, level, context) ==
    /\ Len(p) = level + 1
    /\ \A x \in 1 .. level + 1 : p[x] \in 0 .. context[x].Modulus - 1

(***************************************************************************)
(* C27: for every ciphertext degree d >= 1, Decrypt never makes more than  *)
(* 8 Horner steps without a ReduceLvl, and when it returns a ReduceLvl has *)
(* been applied to the plaintext after the last Horner step (i = 1) and    *)
(* every coefficient of its Level() + 1 limbs lies in [0, q).              *)
(***************************************************************************)
C27_ReducedAfterLastStep ==
    /\ dc_lazy <= 8
    /\ (dc_pc = "Done" /\ Degree(dc_ct) >= 1) =>
          /\ dc_lazy = 0
          /\ DecryptReduced(dc_pt, dc_level, dc_context)

(***************************************************************************)
(* C28: InnerSum(c0, evakey, c1) called with distinct c0 and c1 leaves the *)
(* input ciphertext c0 as it was at the call, Copy copying its receiver    *)
(* onto its argument as in RotateColumns and rotateColumnsPow2.            *)
(***************************************************************************)
C28_InnerSumKeepsInput ==
    (rot_op = "InnerSum" /\ ~rot_same) => rot_c0 = Sym("in", rot_n)

(***************************************************************************)
(* Evaluator.SwitchKeys and Evaluator.SwitchKeysNew                        *)
(* (dbfv/publickey_gen.go:486-523): the degree checks and the polynomials  *)
(* of the input that are read.  The key switch itself is switchKeys above. *)
(***************************************************************************)
\* Largest ciphertext degree explored.
SwMaxDegree == 3

\* The switching keys explored.
SwMaxKeys == 3

\* publickey_gen.go:488: SwitchKeys rejects every input degree but 1.
SwitchKeysRejectsInput(degree) == degree # 1

\* publickey_gen.go:512: SwitchKeysNew rejects the input degrees above 1.
SwitchKeysNewRejects(degree) == degree > 1

SwInit ==
    /\ swAlone
    /\ sw_op \in {"SwitchKeys", "SwitchKeysNew"}
    /\ sw_degIn \in 0 .. SwMaxDegree
    /\ sw_degOut \in 0 .. SwMaxDegree
    /\ sw_same \in BOOLEAN
    /\ sw_same => sw_degOut = sw_degIn
    /\ sw_op = "SwitchKeysNew" => (~sw_same /\ sw_degOut = 0)
    /\ sw_key \in 1 .. SwMaxKeys
    /\ sw_reads = <<>>
    /\ sw_ret = "nil"
    /\ sw_err = "nil"
    /\ sw_pc = "Check"

\* publickey_gen.go:488-503 and 512-516: the degree checks; SwitchKeys then
\* copies cIn.Value()[1] to the pool when cIn == cOut, or takes it as c2;
\* SwitchKeysNew allocates cOut of degree 1.
SwCheck ==
    /\ sw_pc = "Check"
    /\ IF sw_op = "SwitchKeys"
       THEN IF SwitchKeysRejectsInput(sw_degIn)
            THEN /\ sw_err' = "error : ciphertext must be of degree 1 to allow key switching"
                 /\ sw_pc' = "Done"
                 /\ UNCHANGED <<sw_reads, sw_degOut>>
            ELSE IF sw_degOut # 1
            THEN /\ sw_err' = "error : receiver ciphertext must be of degree 1 to allow key switching"
                 /\ sw_pc' = "Done"
                 /\ UNCHANGED <<sw_reads, sw_degOut>>
            ELSE /\ sw_reads' = <<1>>
                 /\ sw_pc' = "NTT"
                 /\ UNCHANGED <<sw_err, sw_degOut>>
       ELSE IF SwitchKeysNewRejects(sw_degIn)
            THEN /\ sw_err' = "error : ciphertext must be of degree 1 to allow key switching"
                 /\ sw_pc' = "Done"
                 /\ UNCHANGED <<sw_reads, sw_degOut>>
            ELSE /\ sw_degOut' = 1
                 /\ sw_pc' = "NTT"
                 /\ UNCHANGED <<sw_err, sw_reads>>
    /\ UNCHANGED <<sw_op, sw_degIn, sw_same, sw_key, sw_ret>>
    /\ UNCHANGED swRest

\* publickey_gen.go:504 and 518: cIn.NTT(cOut), every polynomial of cIn.
SwNTT ==
    /\ sw_pc = "NTT"
    /\ sw_reads' = sw_reads \o [i \in 1 .. sw_degIn + 1 |-> i - 1]
    /\ sw_pc' = "SwitchKeys"
    /\ UNCHANGED <<sw_op, sw_degIn, sw_degOut, sw_same, sw_key, sw_ret, sw_err>>
    /\ UNCHANGED swRest

\* publickey_gen.go:505 and 519: the call of switchKeys; SwitchKeysNew
\* passes cIn.Value()[1], an index Go checks against the length.
SwSwitchKeys ==
    /\ sw_pc = "SwitchKeys"
    /\ IF sw_op = "SwitchKeysNew"
       THEN /\ sw_reads' = Append(sw_reads, 1)
            /\ sw_pc' = IF 1 < sw_degIn + 1 THEN "InvNTT" ELSE "Panic"
       ELSE /\ sw_pc' = "InvNTT"
            /\ UNCHANGED sw_reads
    /\ UNCHANGED <<sw_op, sw_degIn, sw_degOut, sw_same, sw_key, sw_ret, sw_err>>
    /\ UNCHANGED swRest

\* publickey_gen.go:506-508 and 520-522: cOut.InvNTT(cOut) and the return.
SwInvNTT ==
    /\ sw_pc = "InvNTT"
    /\ sw_ret' = IF sw_op = "SwitchKeysNew" THEN "new" ELSE "nil"
    /\ sw_pc' = "Done"
    /\ UNCHANGED <<sw_op, sw_degIn, sw_degOut, sw_same, sw_key, sw_reads, sw_err>>
    /\ UNCHANGED swRest

SwNext ==
    \/ SwCheck
    \/ SwNTT
    \/ SwSwitchKeys
    \/ SwInvNTT

SpecSw == SwInit /\ [][SwNext]_vars

(***************************************************************************)
(* C29: SwitchKeysNew returns the error "ciphertext must be of degree 1 to *)
(* allow key switching" for every input whose degree is not exactly 1, as  *)
(* SwitchKeys does, and neither reads a polynomial the input does not      *)
(* hold.                                                                   *)
(***************************************************************************)
C29_SwitchKeysNewRejectsNotOne ==
    /\ (sw_op = "SwitchKeysNew" /\ sw_degIn # 1 /\ sw_pc # "Check") =>
          /\ sw_pc = "Done"
          /\ sw_err = "error : ciphertext must be of degree 1 to allow key switching"
          /\ sw_ret = "nil"
    /\ (sw_op = "SwitchKeys" /\ sw_degIn # 1 /\ sw_pc # "Check") =>
          /\ sw_pc = "Done"
          /\ sw_err = "error : ciphertext must be of degree 1 to allow key switching"
    /\ sw_pc # "Panic"
    /\ \A r \in DOMAIN sw_reads : sw_reads[r] <= sw_degIn

(***************************************************************************)
(* The fall-back of RotateColumns on the power-of-two rotation keys        *)
(* (publickey_gen.go:605-699).                                             *)
(***************************************************************************)
\* RotateColumns reached line 616: operand and receiver of degree 1, no key
\* for k itself and every power-of-two key generated on both sides.
RotFallback ==
    /\ rot_op = "RotateColumns" /\ rot_pc = "Done"
    /\ RotK # 0 /\ rot_deg0 = 1 /\ rot_deg1 = 1
    /\ RotK \notin rot_keysL
    /\ HasPow2Rotations(rot_n, rot_keysL, rot_keysR)

\* The product modulo 2n of the automorphisms of the key switches run.
RECURSIVE RotGalProduct(_, _)
RotGalProduct(keys, n) ==
    IF keys = <<>> THEN 1
    ELSE (keys[1].gal * RotGalProduct(Tail(keys), n)) % (2 * n)

\* The sum of the indices of the keys used.
RECURSIVE RotIndexSum(_)
RotIndexSum(keys) ==
    IF keys = <<>> THEN 0 ELSE keys[1].index + RotIndexSum(Tail(keys))

(***************************************************************************)
(* C30: when RotateColumns falls back on the power-of-two keys, the        *)
(* automorphisms it composes amount to the rotation by k: for every k in   *)
(* [1, n/2) the left path (gen, k) and the right path (genInv, n/2 - k)    *)
(* both compose gen^k mod 2n, the receiver holds the operand under that    *)
(* automorphism, and every key switch uses the key stored under the power  *)
(* of two of its step, one per set bit of the rotation count, on the side  *)
(* of the path taken, with the automorphism that key is for.               *)
(***************************************************************************)
C30_Pow2Composition ==
    /\ rot_n > 0 =>
          \A k \in 1 .. rot_n \div 2 - 1 :
              /\ rotateColumnsPow2Loop(rot_n, 1, k, GaloisGen, 1, "L", 1, <<>>).gal
                    = GalElRotColLeft(rot_n, k)
              /\ rotateColumnsPow2Loop(rot_n, 1, rot_n \div 2 - k, GaloisGenInv(rot_n),
                                       1, "R", 1, <<>>).gal
                    = GalElRotColLeft(rot_n, k)
    /\ RotFallback =>
          LET left  == hammingWeight64(RotK) <= hammingWeight64(rot_n \div 2 - RotK)
              count == IF left THEN RotK ELSE rot_n \div 2 - RotK
          IN  /\ rot_err = "nil"
              /\ rot_c1 = Permute(Sym("in", rot_n), GalElRotColLeft(rot_n, RotK), rot_n)
              /\ RotGalProduct(rot_keys, rot_n) = GalElRotColLeft(rot_n, RotK)
              /\ Len(rot_keys) = hammingWeight64(count)
              /\ RotIndexSum(rot_keys) = count
              /\ \A i \in DOMAIN rot_keys :
                    /\ rot_keys[i].side = (IF left THEN "L" ELSE "R")
                    /\ hammingWeight64(rot_keys[i].index) = 1
                    /\ And(count, rot_keys[i].index) = rot_keys[i].index
                    /\ rot_keys[i].gal = KeyGal(rot_keys[i])
                    /\ KeyGenerated(rot_keys[i])
                    /\ i > 1 => rot_keys[i - 1].index < rot_keys[i].index

\* RotateColumns by 7 of 8 columns without the key of 7: the right path by
\* 1, one key switch with the right key of 1.
C30_Witness ==
    /\ RotFallback /\ rot_n = 16 /\ RotK = 7 /\ rot_err = "nil"
    /\ rot_keys = <<[side |-> "R", index |-> 1, gal |-> GaloisGenInv(16)]>>

\* RotateColumns by 5 on the left path: the keys of 1 and 4.
C30_WitnessLeft ==
    /\ RotFallback /\ rot_n = 16 /\ RotK = 5 /\ rot_err = "nil"
    /\ Len(rot_keys) = 2 /\ rot_keys[1].index = 1 /\ rot_keys[2].index = 4
    /\ rot_keys[2].gal = 17
=============================================================================
